---- MODULE Spec2Model ----
(***************************************************************************)
(* Acesso Aberto Hub: the parallel source check of src/unnamed/part_000    *)
(* (the App component, its handleSubmit handler, the seven check           *)
(* functions and the string helpers they use).                             *)
(*                                                                         *)
(* Strings are sequences of one-character strings.  Template literals are  *)
(* records [pre, arg, post]: the constant text before and after the        *)
(* interpolated value, and the interpolated value itself.                  *)
(***************************************************************************)
EXTENDS Integers, Sequences, FiniteSets, TLC

(* ------------------------------------------------------------------ *)
(* Characters and elementary string operations                          *)
(* ------------------------------------------------------------------ *)

Digits == {"0", "1", "2", "3", "4", "5", "6", "7", "8", "9"}

LowerLetters == {"a", "b", "d", "e", "f", "h", "i", "o", "p", "s", "t", "w", "x"}

UpperLetters == {"H", "T", "P", "F"}

IsDigit(c) == c \in Digits

IsLetter(c) == c \in LowerLetters \cup UpperLetters

IsSpace(c) == c = " "

\* String.prototype.toLowerCase on one character
toLowerCase(c) ==
    CASE c = "H" -> "h"
      [] c = "T" -> "t"
      [] c = "P" -> "p"
      [] c = "F" -> "f"
      [] OTHER -> c

LowerStr(s) == [i \in 1..Len(s) |-> toLowerCase(s[i])]

\* s.slice(from - 1): the suffix starting at the 1-based position from
Drop(s, n) == IF n >= Len(s) THEN <<>> ELSE SubSeq(s, n + 1, Len(s))

Take(s, n) == IF n >= Len(s) THEN s ELSE SubSeq(s, 1, n)

StartsWith(s, p) == Len(s) >= Len(p) /\ SubSeq(s, 1, Len(p)) = p

\* the least position >= 1 at which p occurs in s, 0 when there is none
IndexOf(s, p) ==
    LET hits == {i \in 1..(Len(s) - Len(p) + 1) : SubSeq(s, i, i + Len(p) - 1) = p}
    IN IF hits = {} THEN 0 ELSE CHOOSE i \in hits : \A j \in hits : i <= j

\* the length of the longest prefix of s whose characters all satisfy the class cls
RECURSIVE RunLen(_, _)
RunLen(s, cls) ==
    IF s = <<>> \/ s[1] \notin cls THEN 0 ELSE 1 + RunLen(Tail(s), cls)

\* String.prototype.trim
RECURSIVE TrimLeft(_)
TrimLeft(s) == IF s # <<>> /\ IsSpace(s[1]) THEN TrimLeft(Tail(s)) ELSE s

RECURSIVE TrimRight(_)
TrimRight(s) ==
    IF s # <<>> /\ IsSpace(s[Len(s)]) THEN TrimRight(SubSeq(s, 1, Len(s) - 1)) ELSE s

trim(s) == TrimRight(TrimLeft(s))

\* s.split(sep) for a one-character separator: the sequence of pieces
RECURSIVE Split(_, _)
Split(s, sep) ==
    LET i == IndexOf(s, <<sep>>)
    IN IF i = 0 THEN <<s>> ELSE <<SubSeq(s, 1, i - 1)>> \o Split(Drop(s, i), sep)

\* pieces.join(sep), each piece preceded by sep (the URL path serializer)
RECURSIVE JoinLeading(_, _)
JoinLeading(pieces, sep) ==
    IF pieces = <<>> THEN <<>>
    ELSE <<sep>> \o pieces[1] \o JoinLeading(Tail(pieces), sep)

\* array.filter(Boolean) on strings: the non-empty pieces, in order
RECURSIVE FilterNonEmpty(_)
FilterNonEmpty(pieces) ==
    IF pieces = <<>> THEN <<>>
    ELSE IF pieces[1] = <<>> THEN FilterNonEmpty(Tail(pieces))
    ELSE <<pieces[1]>> \o FilterNonEmpty(Tail(pieces))

\* a || b on strings: a when it is non-empty, b otherwise
OrElse(a, b) == IF a # <<>> THEN a ELSE b

(* ------------------------------------------------------------------ *)
(* Platform functions the code calls: encodeURIComponent,               *)
(* decodeURIComponent and the URL constructor, on the characters above  *)
(* ------------------------------------------------------------------ *)

\* an absent value (null / undefined) is the empty sequence, a present one <<v>>
None == <<>>

Some(v) == <<v>>

\* characters encodeURIComponent leaves alone
Unreserved == LowerLetters \cup UpperLetters \cup Digits \cup {"-", "_", ".", "!", "~", "*", "'", "(", ")"}

PercentCode(c) ==
    CASE c = " " -> <<"%", "2", "0">>
      [] c = "%" -> <<"%", "2", "5">>
      [] c = "/" -> <<"%", "2", "F">>
      [] c = ":" -> <<"%", "3", "A">>
      [] c = ";" -> <<"%", "3", "B">>

RECURSIVE encodeURIComponent(_)
encodeURIComponent(s) ==
    IF s = <<>> THEN <<>>
    ELSE (IF s[1] \in Unreserved THEN <<s[1]>> ELSE PercentCode(s[1]))
         \o encodeURIComponent(Tail(s))

\* the percent escapes decodeURIComponent decodes here.  In the inputs modelled
\* every other "%" is followed by something else than two hexadecimal digits:
\* a malformed escape, on which decodeURIComponent throws URIError
PercentDecoded(code) ==
    CASE code = <<"%", "2", "0">> -> Some(" ")
      [] code = <<"%", "2", "5">> -> Some("%")
      [] code = <<"%", "2", "F">> -> Some("/")
      [] code = <<"%", "3", "A">> -> Some(":")
      [] code = <<"%", "3", "B">> -> Some(";")
      [] OTHER -> None

\* [ok |-> FALSE] models the URIError
RECURSIVE decodeURIComponent(_)
decodeURIComponent(s) ==
    IF s = <<>> THEN [ok |-> TRUE, value |-> <<>>]
    ELSE IF s[1] # "%"
         THEN LET rest == decodeURIComponent(Tail(s))
              IN [ok |-> rest.ok, value |-> <<s[1]>> \o rest.value]
    ELSE LET ch == PercentDecoded(Take(s, 3))
             rest == decodeURIComponent(Drop(s, 3))
         IN IF ch = None THEN [ok |-> FALSE, value |-> <<>>]
            ELSE [ok |-> rest.ok, value |-> ch \o rest.value]

\* the special schemes the URL parser is modelled for, with their default ports
SpecialSchemes == {<<"h", "t", "t", "p">>, <<"h", "t", "t", "p", "s">>}

DefaultPort(scheme) == IF scheme = <<"h", "t", "t", "p">> THEN 80 ELSE 443

DigitValue(c) == CHOOSE n \in 0..9 : <<"0", "1", "2", "3", "4", "5", "6", "7", "8", "9">>[n + 1] = c

DigitChar(n) == <<"0", "1", "2", "3", "4", "5", "6", "7", "8", "9">>[n + 1]

\* the number a string of digits denotes
RECURSIVE ParseInt(_)
ParseInt(s) ==
    IF s = <<>> THEN 0 ELSE 10 * ParseInt(SubSeq(s, 1, Len(s) - 1)) + DigitValue(s[Len(s)])

\* Number.prototype.toString for a natural number
RECURSIVE NumToString(_)
NumToString(n) ==
    IF n < 10 THEN <<DigitChar(n)>> ELSE NumToString(n \div 10) \o <<DigitChar(n % 10)>>

\* the forbidden domain code points among the characters used
ForbiddenHost == {" ", "%", "/", ":"}

\* a path segment with the characters of the path percent-encode set escaped
\* (the space, among the characters used)
RECURSIVE PathSegmentEncode(_)
PathSegmentEncode(seg) ==
    IF seg = <<>> THEN <<>>
    ELSE (IF seg[1] = " " THEN <<"%", "2", "0">> ELSE <<seg[1]>>) \o PathSegmentEncode(Tail(seg))

\* the URL parser's path state: "." and ".." segments are resolved, a trailing
\* one leaves an empty last segment
RECURSIVE PathSteps(_, _)
PathSteps(segs, acc) ==
    IF segs = <<>> THEN acc
    ELSE LET seg == segs[1]
             last == Len(segs) = 1
             popped == IF acc = <<>> THEN <<>> ELSE SubSeq(acc, 1, Len(acc) - 1)
             next == IF seg = <<".", ".">> THEN (IF last THEN popped \o <<<<>>>> ELSE popped)
                     ELSE IF seg = <<".">> THEN (IF last THEN acc \o <<<<>>>> ELSE acc)
                     ELSE acc \o <<PathSegmentEncode(seg)>>
         IN PathSteps(Tail(segs), next)

InvalidURL == [ok |-> FALSE, protocol |-> <<>>, hostname |-> <<>>, port |-> <<>>,
               pathname |-> <<>>, href |-> <<>>]

\* the scheme of a URL string, lower-cased: the text before the first ":"
SchemeOf(t) == LowerStr(Take(t, IndexOf(t, <<":">>) - 1))

\* what follows "scheme:" and the slashes after it (any number of them, for a
\* special scheme)
AfterSlashes(t) ==
    Drop(Drop(t, IndexOf(t, <<":">>)), RunLen(Drop(t, IndexOf(t, <<":">>)), {"/"}))

\* the authority: up to the first "/"
AuthorityOf(rest) ==
    IF IndexOf(rest, <<"/">>) = 0 THEN rest ELSE Take(rest, IndexOf(rest, <<"/">>) - 1)

\* what follows the "/" that ends the authority
PathPartOf(rest) ==
    IF IndexOf(rest, <<"/">>) = 0 THEN <<>> ELSE Drop(rest, IndexOf(rest, <<"/">>))

HostOf(authority) ==
    IF IndexOf(authority, <<":">>) = 0 THEN authority
    ELSE Take(authority, IndexOf(authority, <<":">>) - 1)

PortOf(authority) ==
    IF IndexOf(authority, <<":">>) = 0 THEN <<>>
    ELSE Drop(authority, IndexOf(authority, <<":">>))

\* the port state: digits only, at most 65535
PortValid(portRaw) ==
    /\ \A i \in 1..Len(portRaw) : IsDigit(portRaw[i])
    /\ ParseInt(portRaw) <= 65535

\* the port as serialized: none when it is absent or the scheme's default
PortSerialized(scheme, portRaw) ==
    IF portRaw = <<>> \/ ParseInt(portRaw) = DefaultPort(scheme)
    THEN <<>> ELSE NumToString(ParseInt(portRaw))

\* the host state: not empty, no forbidden code point
HostValid(hostRaw) ==
    /\ hostRaw # <<>>
    /\ \A i \in 1..Len(hostRaw) : hostRaw[i] \notin ForbiddenHost

PathnameOf(pathPart) == JoinLeading(PathSteps(Split(pathPart, "/"), <<>>), "/")

\* the URL record, with href as the URL serializer writes it
MakeURL(protocol, hostname, port, pathname) ==
    [ok |-> TRUE, protocol |-> protocol, hostname |-> hostname, port |-> port,
     pathname |-> pathname,
     href |-> protocol \o <<"/", "/">> \o hostname
              \o (IF port = <<>> THEN <<>> ELSE <<":">> \o port) \o pathname]

ParseParts(hasColon, scheme, hostRaw, portRaw, pathPart) ==
    IF \/ ~hasColon
       \/ scheme \notin SpecialSchemes
       \/ ~HostValid(hostRaw)
       \/ ~PortValid(portRaw)
    THEN InvalidURL
    ELSE MakeURL(scheme \o <<":">>, LowerStr(hostRaw), PortSerialized(scheme, portRaw),
                 PathnameOf(pathPart))

ParseTrimmed(t, rest) ==
    ParseParts(IndexOf(t, <<":">>) # 0, SchemeOf(t), HostOf(AuthorityOf(rest)),
               PortOf(AuthorityOf(rest)), PathPartOf(rest))

\* new URL(s) for an absolute URL string with a special scheme, without
\* userinfo, query or fragment, whose host has no numeric last label (that one
\* the parser reads as an IPv4 address); [ok |-> FALSE] models the TypeError
ParseURL(s) == ParseTrimmed(trim(s), AfterSlashes(trim(s)))

(* ------------------------------------------------------------------ *)
(* String helpers of the repository                                     *)
(* ------------------------------------------------------------------ *)

HttpPrefix == <<"h", "t", "t", "p", ":", "/", "/">>

HttpsPrefix == <<"h", "t", "t", "p", "s", ":", "/", "/">>

\* /^https?:\/\//i.test(value)
HasHttpPrefix(value) ==
    \/ StartsWith(LowerStr(value), HttpPrefix)
    \/ StartsWith(LowerStr(value), HttpsPrefix)

\* the protocol check of normalizeUrl
ProtocolAllowed(protocol) ==
    protocol \in {<<"h", "t", "t", "p", ":">>, <<"h", "t", "t", "p", "s", ":">>}

\* withProtocol of normalizeUrl
WithProtocol(value) == IF HasHttpPrefix(value) THEN value ELSE HttpsPrefix \o value

\* normalizeUrl from new URL(withProtocol) on
NormalizeParsed(parsed) ==
    IF ~parsed.ok
    THEN [ok |-> FALSE, url |-> <<>>, error |-> "Invalid URL"]
    ELSE IF ~ProtocolAllowed(parsed.protocol)
    THEN [ok |-> FALSE, url |-> <<>>, error |-> "Use uma URL HTTP/HTTPS valida."]
    ELSE [ok |-> TRUE, url |-> parsed.href, error |-> ""]

\* normalizeUrl from the trimmed value on
NormalizeTrimmed(value) ==
    IF value = <<>>
    THEN [ok |-> FALSE, url |-> <<>>, error |-> "Informe uma URL para continuar."]
    ELSE NormalizeParsed(ParseURL(WithProtocol(value)))

\* [ok |-> FALSE, error |-> message] models the thrown Error; "Invalid URL" is
\* the message of the TypeError of the URL constructor
normalizeUrl(rawUrl) == NormalizeTrimmed(trim(rawUrl))

\* the character class [-._;()/:A-Z0-9] of DOI_REGEX, case-insensitive
DoiSuffixClass == LowerLetters \cup UpperLetters \cup Digits \cup {"-", ".", "_", ";", "(", ")", "/", ":"}

\* DoiMatchAt for a pattern that reads 10.\d{4,9}/ without the suffix
DoiMatchAtPrefixOnly(s) ==
    LET afterPrefix == Drop(s, 3)
        d == RunLen(afterPrefix, Digits)
    IN IF /\ StartsWith(s, <<"1", "0", ".">>)
          /\ d >= 4 /\ d <= 9
          /\ Len(afterPrefix) > d /\ afterPrefix[d + 1] = "/"
       THEN Some(Take(s, 3 + d + 1))
       ELSE None

\* the match of DOI_REGEX anchored at the start of s, None when there is none
DoiMatchAt(s) ==
    LET afterPrefix == Drop(s, 3)
        d == RunLen(afterPrefix, Digits)
        afterSlash == Drop(afterPrefix, d + 1)
        n == RunLen(afterSlash, DoiSuffixClass)
    IN IF /\ StartsWith(s, <<"1", "0", ".">>)
          /\ d >= 4 /\ d <= 9
          /\ Len(afterPrefix) > d /\ afterPrefix[d + 1] = "/"
          /\ n >= 1
       THEN Some(Take(s, 3 + d + 1 + n))
       ELSE None

\* decoded.match(DOI_REGEX)?.[0] ?? null : the leftmost match
RECURSIVE DoiSearch(_)
DoiSearch(s) ==
    IF s = <<>> THEN None
    ELSE IF DoiMatchAt(s) # None THEN DoiMatchAt(s)
    ELSE DoiSearch(Tail(s))

extractDoi(text) ==
    LET d == decodeURIComponent(text)
        decoded == IF d.ok THEN d.value ELSE text
    IN DoiSearch(decoded)

\* hostname.replace(/^www\./i, '')
StripWww(hostname) ==
    IF StartsWith(LowerStr(hostname), <<"w", "w", "w", ".">>) THEN Drop(hostname, 4) ELSE hostname

HostOfParsed(parsed) == IF parsed.ok THEN StripWww(parsed.hostname) ELSE <<>>

extractHost(url) == HostOfParsed(ParseURL(url))

\* .replace(/\.[a-z0-9]{2,8}$/i, '')
StripExtension(s) ==
    LET dots == {i \in 1..Len(s) : s[i] = "."}
        lastDot == CHOOSE i \in dots : \A j \in dots : j <= i
        ext == Drop(s, lastDot)
    IN IF /\ dots # {}
          /\ Len(ext) >= 2 /\ Len(ext) <= 8
          /\ \A i \in 1..Len(ext) : IsLetter(ext[i]) \/ IsDigit(ext[i])
       THEN Take(s, lastDot - 1)
       ELSE s

\* .replace(/C{min,}/g, ' ') for a character class C: every maximal run of at
\* least min characters of cls becomes one space
RECURSIVE ReplaceRuns(_, _, _)
ReplaceRuns(s, cls, min) ==
    IF s = <<>> THEN <<>>
    ELSE LET r == RunLen(s, cls)
         IN IF r >= min THEN <<" ">> \o ReplaceRuns(Drop(s, r), cls, min)
            ELSE IF r > 0 THEN Take(s, r) \o ReplaceRuns(Drop(s, r), cls, min)
            ELSE <<s[1]>> \o ReplaceRuns(Tail(s), cls, min)

\* the four replacements and the trim of extractTitleHint
CleanTitle(decoded) ==
    trim(ReplaceRuns(ReplaceRuns(ReplaceRuns(StripExtension(decoded), Digits, 2),
                                 {"-", "_"}, 1),
                     {" "}, 1))

\* parts[parts.length - 1] ?? parsed.hostname
LastPart(parts, hostname) == IF parts = <<>> THEN hostname ELSE parts[Len(parts)]

\* TitleFromDecoded without the fallback to the hostname
TitleFromDecodedNoFallback(decoded, hostname) ==
    IF ~decoded.ok THEN <<>> ELSE CleanTitle(decoded.value)

TitleFromDecoded(decoded, hostname) ==
    IF ~decoded.ok THEN <<>>
    ELSE OrElse(CleanTitle(decoded.value), hostname)

TitleFromParsed(parsed) ==
    IF ~parsed.ok THEN <<>>
    ELSE TitleFromDecoded(
             decodeURIComponent(LastPart(FilterNonEmpty(Split(parsed.pathname, "/")),
                                         parsed.hostname)),
             parsed.hostname)

extractTitleHint(url) == TitleFromParsed(ParseURL(url))

\* doi.toLowerCase().trim()
normalizeDoi(doi) == trim(LowerStr(doi))

\* optional.field truthiness: present and not the empty string
Truthy(opt) == opt # None /\ opt[1] # <<>>

\* timestamp.slice(from, to)
Slice(s, from, to) ==
    IF from >= Len(s) \/ to <= from THEN <<>>
    ELSE SubSeq(s, from + 1, IF to <= Len(s) THEN to ELSE Len(s))

\* `${day}/${month}/${year} ${hour}:${minute}`
formatSnapshotDate(timestamp) ==
    Slice(timestamp, 6, 8) \o <<"/">> \o Slice(timestamp, 4, 6) \o <<"/">>
    \o Slice(timestamp, 0, 4) \o <<" ">> \o Slice(timestamp, 8, 10) \o <<":">>
    \o Slice(timestamp, 10, 12)

\* snapshotUrl.match(/\/web\/(\d+)\//): the position just after the digits of
\* the leftmost match, 0 when there is no match
RECURSIVE WebTimestampEnd(_, _)
WebTimestampEnd(s, from) ==
    IF from > Len(s) THEN 0
    ELSE LET rest == Drop(s, from - 1)
             d == RunLen(Drop(rest, 5), Digits)
         IN IF /\ StartsWith(rest, <<"/", "w", "e", "b", "/">>)
               /\ d >= 1
               /\ Len(rest) > 5 + d /\ rest[5 + d + 1] = "/"
            THEN from + 5 + d
            ELSE WebTimestampEnd(s, from + 1)

\* the snapshot URL with flag inserted after the timestamp of /web/<timestamp>/
WithWaybackFlag(snapshotUrl, flag) ==
    LET e == WebTimestampEnd(snapshotUrl, 1)
    IN IF e = 0 THEN snapshotUrl
       ELSE Take(snapshotUrl, e - 1) \o flag \o Drop(snapshotUrl, e - 1)

toWaybackNoToolbar(snapshotUrl) == WithWaybackFlag(snapshotUrl, <<"i", "d", "_">>)

toWaybackIframe(snapshotUrl) == WithWaybackFlag(snapshotUrl, <<"i", "f", "_">>)

\* the first truthy pdf_url or landing_page_url of the locations, in order
RECURSIVE FirstLocationUrl(_)
FirstLocationUrl(locations) ==
    IF locations = <<>> THEN None
    ELSE IF Truthy(locations[1].pdf_url) THEN locations[1].pdf_url
    ELSE IF Truthy(locations[1].landing_page_url) THEN locations[1].landing_page_url
    ELSE FirstLocationUrl(Tail(locations))

\* pickOpenAccessUrl that looks at the locations before open_access.oa_url
pickOpenAccessUrlLocationsFirst(work) ==
    IF work.locations # None /\ Truthy(FirstLocationUrl(work.locations[1]))
    THEN FirstLocationUrl(work.locations[1])
    ELSE IF work.open_access # None /\ Truthy(work.open_access[1].oa_url)
    THEN work.open_access[1].oa_url
    ELSE None

pickOpenAccessUrl(work) ==
    IF work.open_access # None /\ Truthy(work.open_access[1].oa_url)
    THEN work.open_access[1].oa_url
    ELSE IF work.locations = None THEN None
    ELSE FirstLocationUrl(work.locations[1])

(* ------------------------------------------------------------------ *)
(* Results, responses and promises                                      *)
(* ------------------------------------------------------------------ *)

\* a template literal: constant text, the interpolated value, constant text
Tpl(pre, arg, post) == [pre |-> pre, arg |-> arg, post |-> post]

Lit(text) == Tpl(text, <<>>, "")

Link(label, href) == [label |-> label, href |-> href]

CheckResult(id, title, status, summary, links) ==
    [id |-> id, title |-> title, status |-> status, summary |-> summary, links |-> links]

\* the outcome of fetch: the promise rejects (net = "error") or resolves with a
\* Response whose ok flag is given
NetworkError == [net |-> "error", ok |-> FALSE]

HttpResponse(ok) == [net |-> "response", ok |-> ok]

\* the outcome of response.json(): it rejects (kind = "malformed"), or resolves
\* with the JSON value null (kind = "null") or with a value data (kind = "value")
MalformedBody == [kind |-> "malformed", data |-> None]

NullBody == [kind |-> "null", data |-> None]

JsonBody(data) == [kind |-> "value", data |-> Some(data)]

\* the body of a response the check never reads
NoBody == [kind |-> "unread", data |-> None]

\* a settled promise of an async check function
Pending == [status |-> "pending", value |-> None]

Fulfilled(value) == [status |-> "fulfilled", value |-> Some(value)]

Rejected == [status |-> "rejected", value |-> None]

\* an exception inside the try block of a check
ThrowsInTry(response, body) ==
    \/ response.net = "error"
    \/ response.ok /\ body.kind \in {"malformed", "null"}

\* TryCatch without the catch block: the exception rejects the promise
TryNoCatch(threw, value, fallback) ==
    IF threw THEN Rejected ELSE Fulfilled(value)

\* try { ... return value } catch { return fallback } in an async function: the
\* promise is fulfilled either way
TryCatch(threw, value, fallback) ==
    IF threw THEN Fulfilled(fallback) ELSE Fulfilled(value)

(* ------------------------------------------------------------------ *)
(* The seven checks: the promise each settles with, given the context,  *)
(* the outcome of its fetch and the outcome of response.json()          *)
(* ------------------------------------------------------------------ *)

\* TimelineLink with the URL put into the address as it is
TimelineLinkRaw(context) ==
    Link(Lit("Timeline Wayback"), Tpl("https://web.archive.org/web/*/", context.url, ""))

TimelineLink(context) ==
    Link(Lit("Timeline Wayback"),
         Tpl("https://web.archive.org/web/*/", encodeURIComponent(context.url), ""))

checkWaybackClosest(context, response, body) ==
    LET title == "Wayback snapshot"
        closest == IF body.data # None /\ body.data[1].archived_snapshots # None
                   THEN body.data[1].archived_snapshots[1].closest ELSE None
        noSnapshot == closest = None \/ ~closest[1].available \/ ~Truthy(closest[1].url)
        snapshot == closest[1]
        dateText == IF Truthy(snapshot.timestamp)
                    THEN Tpl("Snapshot encontrado em ", formatSnapshotDate(snapshot.timestamp[1]), ".")
                    ELSE Lit("Snapshot encontrado em data indisponivel.")
        value ==
            IF ~response.ok
            THEN CheckResult("wayback-closest", title, "not_working",
                             Lit("API do Internet Archive nao respondeu com sucesso."),
                             <<TimelineLink(context)>>)
            ELSE IF noSnapshot
            THEN CheckResult("wayback-closest", title, "not_working",
                             Lit("Sem snapshot proximo retornado pela API."),
                             <<TimelineLink(context)>>)
            ELSE CheckResult("wayback-closest", title, "working", dateText,
                             << Link(Lit("Abrir snapshot"), Tpl("", snapshot.url[1], "")),
                                Link(Lit("Modo sem barra"), Tpl("", toWaybackNoToolbar(snapshot.url[1]), "")),
                                Link(Lit("Modo iframe"), Tpl("", toWaybackIframe(snapshot.url[1]), "")),
                                TimelineLink(context) >>)
        fallback == CheckResult("wayback-closest", title, "not_working",
                                Lit("Falha de rede ao consultar Wayback."),
                                <<TimelineLink(context)>>)
    IN TryCatch(ThrowsInTry(response, body), value, fallback)

\* row[0] of a CDX row, the text "undefined" for an empty row
RowTimestamp(row) ==
    IF row = <<>> THEN <<"u", "n", "d", "e", "f", "i", "n", "e", "d">> ELSE row[1]

\* CdxTopLinks over rows.slice(0, 3): the header row is taken for a capture
CdxTopLinksFromHeader(context, rows) ==
    LET top == SubSeq(rows, 1, IF Len(rows) < 3 THEN Len(rows) ELSE 3)
    IN [k \in 1..Len(top) |->
          Link(Tpl("Captura ", RowTimestamp(top[k]), ""),
               Tpl("https://web.archive.org/web/",
                   RowTimestamp(top[k]) \o <<"/">> \o context.url, ""))]

\* rows.slice(1, 4).map(...)
CdxTopLinks(context, rows) ==
    LET top == SubSeq(rows, 2, IF Len(rows) < 4 THEN Len(rows) ELSE 4)
    IN [k \in 1..Len(top) |->
          Link(Tpl("Captura ", RowTimestamp(top[k]), ""),
               Tpl("https://web.archive.org/web/",
                   RowTimestamp(top[k]) \o <<"/">> \o context.url, ""))]

checkWaybackCdx(context, response, body) ==
    LET title == "Wayback capturas"
        rows == IF body.data = None THEN <<>> ELSE body.data[1]
        value ==
            IF ~response.ok
            THEN CheckResult("wayback-cdx", title, "not_working",
                             Lit("Busca de capturas via CDX nao retornou sucesso."),
                             <<TimelineLink(context)>>)
            ELSE IF body.kind = "null" \/ Len(rows) <= 1
            THEN CheckResult("wayback-cdx", title, "not_working",
                             Lit("Nenhuma captura 200 encontrada no CDX para esta URL."),
                             <<TimelineLink(context)>>)
            ELSE CheckResult("wayback-cdx", title, "working",
                             Tpl("", NumToString(Len(rows) - 1),
                                 " captura(s) encontradas na consulta CDX (amostra)."),
                             CdxTopLinks(context, rows))
        fallback == CheckResult("wayback-cdx", title, "not_working",
                                Lit("Falha de rede ao consultar capturas CDX."),
                                <<TimelineLink(context)>>)
        \* !rows is tested before rows.length: a null body does not throw here
        threw == response.net = "error" \/ (response.ok /\ body.kind = "malformed")
    IN TryCatch(threw, value, fallback)

OpenAlexSearchLink(context) ==
    Link(Lit("Busca OpenAlex"),
         Tpl("https://openalex.org/works?search=",
             encodeURIComponent(OrElse(context.titleHint, context.url)), ""))

\* FilterOpenAccess that keeps every work
FilterNothing(works) == works

\* (data.results ?? []).filter((work) => Boolean(pickOpenAccessUrl(work)))
RECURSIVE FilterOpenAccess(_)
FilterOpenAccess(works) ==
    IF works = <<>> THEN <<>>
    ELSE IF Truthy(pickOpenAccessUrl(works[1]))
         THEN <<works[1]>> \o FilterOpenAccess(Tail(works))
    ELSE FilterOpenAccess(Tail(works))

\* works.map(...).filter(Boolean): one link per work with an open URL
RECURSIVE OpenAlexLinks(_)
OpenAlexLinks(works) ==
    IF works = <<>> THEN <<>>
    ELSE LET work == works[1]
             href == pickOpenAccessUrl(work)
             year == IF work.publication_year # None /\ work.publication_year[1] # 0
                     THEN <<" ", "(">> \o NumToString(work.publication_year[1]) \o <<")">>
                     ELSE <<>>
         IN (IF ~Truthy(href) THEN <<>>
             ELSE <<Link(Tpl("", work.display_name \o year, ""), Tpl("", href[1], ""))>>)
            \o OpenAlexLinks(Tail(works))

\* OpenAlexEndpoint that searches by text even when the context holds a DOI
OpenAlexEndpointByText(context) ==
    Tpl("https://api.openalex.org/works?search=",
        encodeURIComponent(OrElse(context.titleHint, context.url)),
        "&filter=is_oa:true&per-page=6")

\* the endpoint the check requests
OpenAlexEndpoint(context) ==
    IF context.doi # None
    THEN Tpl("https://api.openalex.org/works?filter=doi:",
             encodeURIComponent(normalizeDoi(context.doi[1])), "&per-page=6")
    ELSE Tpl("https://api.openalex.org/works?search=",
             encodeURIComponent(OrElse(context.titleHint, context.url)),
             "&filter=is_oa:true&per-page=6")

checkOpenAlex(context, response, body) ==
    LET title == "OpenAlex"
        results == IF body.data = None \/ body.data[1].results = None
                   THEN <<>> ELSE body.data[1].results[1]
        works == Take(FilterOpenAccess(results), 3)
        value ==
            IF ~response.ok
            THEN CheckResult("openalex", title, "not_working",
                             Lit("API OpenAlex nao retornou sucesso."),
                             <<OpenAlexSearchLink(context)>>)
            ELSE IF works = <<>>
            THEN CheckResult("openalex", title, "not_working",
                             Lit("Nenhum link open access direto encontrado nesta consulta."),
                             <<OpenAlexSearchLink(context)>>)
            ELSE CheckResult("openalex", title, "working",
                             Tpl("", NumToString(Len(works)),
                                 " resultado(s) com URL aberta encontrada(s)."),
                             OpenAlexLinks(works))
        fallback == CheckResult("openalex", title, "not_working",
                                Lit("Falha de rede ao consultar OpenAlex."),
                                <<OpenAlexSearchLink(context)>>)
    IN TryCatch(ThrowsInTry(response, body), value, fallback)

\* context.titleHint || context.host || context.url
DoajQuery(context) == OrElse(context.titleHint, OrElse(context.host, context.url))

DoajSearchLink(context, label) ==
    Link(Lit(label),
         Tpl("https://doaj.org/search/articles/", encodeURIComponent(DoajQuery(context)), ""))

DoajEndpoint(context) ==
    Tpl("https://doaj.org/api/search/articles/", encodeURIComponent(DoajQuery(context)),
        "?page=1&pageSize=3")

checkDoaj(context, response, body) ==
    LET title == "DOAJ"
        total == IF body.data = None \/ body.data[1].total = None
                 THEN 0 ELSE body.data[1].total[1]
        value ==
            IF ~response.ok
            THEN CheckResult("doaj", title, "not_working",
                             Lit("API DOAJ nao retornou sucesso."),
                             <<DoajSearchLink(context, "Busca DOAJ")>>)
            ELSE IF total <= 0
            THEN CheckResult("doaj", title, "not_working",
                             Lit("DOAJ nao retornou artigos para esta consulta."),
                             <<DoajSearchLink(context, "Busca DOAJ")>>)
            ELSE CheckResult("doaj", title, "working",
                             Tpl("DOAJ retornou ", NumToString(total),
                                 " resultado(s) para a consulta."),
                             <<DoajSearchLink(context, "Abrir resultados DOAJ")>>)
        fallback == CheckResult("doaj", title, "not_working",
                                Lit("Falha de rede ao consultar DOAJ."),
                                <<DoajSearchLink(context, "Busca DOAJ")>>)
    IN TryCatch(ThrowsInTry(response, body), value, fallback)

CrossrefSearchLink(label, query) ==
    Link(Lit(label), Tpl("https://search.crossref.org/?q=", encodeURIComponent(query), ""))

CrossrefEndpoint(context) ==
    IF context.doi # None
    THEN Tpl("https://api.crossref.org/works/", encodeURIComponent(context.doi[1]), "")
    ELSE Tpl("https://api.crossref.org/works?query.bibliographic=",
             encodeURIComponent(OrElse(context.titleHint, context.url)), "&rows=3")

\* with a DOI the check never calls response.json()
CrossrefReadsBody(context) == context.doi = None

checkCrossref(context, response, body) ==
    LET title == "Crossref"
        query == OrElse(context.titleHint, context.url)
        count == IF \/ body.data = None
                    \/ body.data[1].message = None
                    \/ body.data[1].message[1].items = None
                 THEN 0 ELSE Len(body.data[1].message[1].items[1])
        byDoi ==
            IF ~response.ok
            THEN CheckResult("crossref", title, "not_working",
                             Lit("Crossref nao confirmou metadado para o DOI informado."),
                             <<CrossrefSearchLink("Busca Crossref", context.doi[1])>>)
            ELSE CheckResult("crossref", title, "working",
                             Lit("DOI confirmado no Crossref."),
                             << Link(Lit("Abrir DOI"), Tpl("https://doi.org/", context.doi[1], "")),
                                CrossrefSearchLink("Busca Crossref", context.doi[1]) >>)
        bySearch ==
            IF ~response.ok
            THEN CheckResult("crossref", title, "not_working",
                             Lit("Busca Crossref nao retornou sucesso."),
                             <<CrossrefSearchLink("Busca Crossref", query)>>)
            ELSE IF count = 0
            THEN CheckResult("crossref", title, "not_working",
                             Lit("Crossref nao retornou itens para este titulo."),
                             <<CrossrefSearchLink("Busca Crossref", query)>>)
            ELSE CheckResult("crossref", title, "working",
                             Tpl("Crossref retornou ", NumToString(count),
                                 " item(ns) para o titulo."),
                             <<CrossrefSearchLink("Abrir busca Crossref", query)>>)
        fallback == CheckResult("crossref", title, "not_working",
                                Lit("Falha de rede ao consultar Crossref."),
                                <<CrossrefSearchLink("Busca Crossref", query)>>)
        threw == IF context.doi # None THEN response.net = "error"
                 ELSE ThrowsInTry(response, body)
    IN TryCatch(threw, IF context.doi # None THEN byDoi ELSE bySearch, fallback)

SemanticScholarSearchLink(query) ==
    Link(Lit("Busca Semantic Scholar"),
         Tpl("https://www.semanticscholar.org/search?q=", encodeURIComponent(query), ""))

SemanticScholarEndpoint(context) ==
    Tpl("https://api.semanticscholar.org/graph/v1/paper/search?query=",
        encodeURIComponent(OrElse(context.titleHint, context.url)),
        "&limit=3&fields=title,url,openAccessPdf")

\* paper.openAccessPdf?.url || paper.url
PaperHref(paper) ==
    IF paper.openAccessPdf # None /\ Truthy(paper.openAccessPdf[1].url)
    THEN paper.openAccessPdf[1].url
    ELSE paper.url

\* the loop over papers that pushes a link for every paper with an href
RECURSIVE SemanticScholarLinks(_)
SemanticScholarLinks(papers) ==
    IF papers = <<>> THEN <<>>
    ELSE LET paper == papers[1]
             href == PaperHref(paper)
             label == IF Truthy(paper.title) THEN Tpl("", paper.title[1], "")
                      ELSE Lit("Resultado")
         IN (IF Truthy(href) THEN <<Link(label, Tpl("", href[1], ""))>> ELSE <<>>)
            \o SemanticScholarLinks(Tail(papers))

checkSemanticScholar(context, response, body) ==
    LET title == "Semantic Scholar"
        query == OrElse(context.titleHint, context.url)
        papers == IF body.data = None \/ body.data[1].data = None
                  THEN <<>> ELSE Take(body.data[1].data[1], 3)
        links == SemanticScholarLinks(papers)
        value ==
            IF ~response.ok
            THEN CheckResult("semantic-scholar", title, "not_working",
                             Lit("API Semantic Scholar nao retornou sucesso."),
                             <<SemanticScholarSearchLink(query)>>)
            ELSE IF papers = <<>>
            THEN CheckResult("semantic-scholar", title, "not_working",
                             Lit("Semantic Scholar nao retornou resultados para esta consulta."),
                             <<SemanticScholarSearchLink(query)>>)
            ELSE IF links # <<>>
            THEN CheckResult("semantic-scholar", title, "working",
                             Tpl("", NumToString(Len(links)),
                                 " link(s) encontrado(s) no Semantic Scholar."),
                             links)
            ELSE CheckResult("semantic-scholar", title, "not_working",
                             Lit("Resultados encontrados, mas sem URL aberta direta no payload."),
                             <<SemanticScholarSearchLink(query)>>)
        fallback == CheckResult("semantic-scholar", title, "not_working",
                                Lit("Falha de rede ao consultar Semantic Scholar."),
                                <<SemanticScholarSearchLink(query)>>)
    IN TryCatch(ThrowsInTry(response, body), value, fallback)

ArchiveTodayLinks(context) ==
    << Link(Lit("Buscar no archive.ph"),
            Tpl("https://archive.ph/search/?q=", encodeURIComponent(context.url), "")),
       Link(Lit("Abrir lookup direto"), Tpl("https://archive.ph/", context.url, "")),
       Link(Lit("Abrir em archive.today"), Tpl("https://archive.today/", context.url, "")),
       Link(Lit("Salvar snapshot agora"),
            Tpl("https://archive.ph/submit/?url=", encodeURIComponent(context.url), "")) >>

\* checkArchiveToday taking any response for a success, whatever its status
checkArchiveTodayIgnoresOk(context, response, body) ==
    LET title == "Archive.today / Archive.ph"
        value == CheckResult("archive-today", title, "working",
                             Lit("Consulta ao Archive.today respondeu com sucesso."),
                             ArchiveTodayLinks(context))
        fallback == CheckResult("archive-today", title, "unknown",
                                Lit("Fonte adicionada; validacao automatica pode falhar por restricao de CORS."),
                                ArchiveTodayLinks(context))
    IN TryCatch(response.net = "error", value, fallback)

\* checkArchiveToday reporting every failure as not_working, as the other checks do
checkArchiveTodayNotWorking(context, response, body) ==
    LET title == "Archive.today / Archive.ph"
        value ==
            IF response.ok
            THEN CheckResult("archive-today", title, "working",
                             Lit("Consulta ao Archive.today respondeu com sucesso."),
                             ArchiveTodayLinks(context))
            ELSE CheckResult("archive-today", title, "not_working",
                             Lit("Fonte adicionada, mas o navegador nao confirmou a consulta automaticamente."),
                             ArchiveTodayLinks(context))
        fallback == CheckResult("archive-today", title, "not_working",
                                Lit("Fonte adicionada; validacao automatica pode falhar por restricao de CORS."),
                                ArchiveTodayLinks(context))
    IN TryCatch(response.net = "error", value, fallback)

\* the check never reads the body
checkArchiveToday(context, response, body) ==
    LET title == "Archive.today / Archive.ph"
        value ==
            IF response.ok
            THEN CheckResult("archive-today", title, "working",
                             Lit("Consulta ao Archive.today respondeu com sucesso."),
                             ArchiveTodayLinks(context))
            ELSE CheckResult("archive-today", title, "unknown",
                             Lit("Fonte adicionada, mas o navegador nao confirmou a consulta automaticamente."),
                             ArchiveTodayLinks(context))
        fallback == CheckResult("archive-today", title, "unknown",
                                Lit("Fonte adicionada; validacao automatica pode falhar por restricao de CORS."),
                                ArchiveTodayLinks(context))
    IN TryCatch(response.net = "error", value, fallback)

\* buildUnknownChecks searching for the URL, whatever the title hint
buildUnknownChecksByUrl(context) ==
    LET query == context.url
    IN << CheckResult("google-scholar-manual", "Google Scholar (manual)", "unknown",
                      Lit("Navegador nao permite validar automaticamente esta fonte sem interacao/captcha."),
                      <<Link(Lit("Abrir Google Scholar"),
                             Tpl("https://scholar.google.com/scholar?q=",
                                 encodeURIComponent(query), ""))>>),
          CheckResult("base-manual", "BASE (manual)", "unknown",
                      Lit("Fonte adicionada como fallback manual para ampliar cobertura open access."),
                      <<Link(Lit("Abrir BASE"),
                             Tpl("https://www.base-search.net/Search/Results?lookfor=",
                                 encodeURIComponent(query), "&type=all&oaboost=1"))>>) >>

buildUnknownChecks(context) ==
    LET query == OrElse(context.titleHint, context.url)
    IN << CheckResult("google-scholar-manual", "Google Scholar (manual)", "unknown",
                      Lit("Navegador nao permite validar automaticamente esta fonte sem interacao/captcha."),
                      <<Link(Lit("Abrir Google Scholar"),
                             Tpl("https://scholar.google.com/scholar?q=",
                                 encodeURIComponent(query), ""))>>),
          CheckResult("base-manual", "BASE (manual)", "unknown",
                      Lit("Fonte adicionada como fallback manual para ampliar cobertura open access."),
                      <<Link(Lit("Abrir BASE"),
                             Tpl("https://www.base-search.net/Search/Results?lookfor=",
                                 encodeURIComponent(query), "&type=all&oaboost=1"))>>) >>

(* ------------------------------------------------------------------ *)
(* The App component: its state, handleSubmit and the checks in flight  *)
(* ------------------------------------------------------------------ *)

\* the positions of the checks array, in declaration order
Sources == 1..7

\* checks[i] of handleSubmit applied to the outcome of its request
CheckAt(i, context, response, body) ==
    CASE i = 1 -> checkWaybackClosest(context, response, body)
      [] i = 2 -> checkWaybackCdx(context, response, body)
      [] i = 3 -> checkOpenAlex(context, response, body)
      [] i = 4 -> checkDoaj(context, response, body)
      [] i = 5 -> checkCrossref(context, response, body)
      [] i = 6 -> checkSemanticScholar(context, response, body)
      [] i = 7 -> checkArchiveToday(context, response, body)

\* the endpoint check i passes to fetch
EndpointAt(i, context) ==
    CASE i = 1 -> Tpl("https://archive.org/wayback/available?url=",
                      encodeURIComponent(context.url), "")
      [] i = 2 -> Tpl("https://web.archive.org/cdx/search/cdx?url=",
                      encodeURIComponent(context.url),
                      "&output=json&fl=timestamp,original,statuscode&filter=statuscode:200&limit=5")
      [] i = 3 -> OpenAlexEndpoint(context)
      [] i = 4 -> DoajEndpoint(context)
      [] i = 5 -> CrossrefEndpoint(context)
      [] i = 6 -> SemanticScholarEndpoint(context)
      [] i = 7 -> Tpl("https://archive.ph/search/?q=", encodeURIComponent(context.url), "")

\* whether check i awaits response.json() after a successful response
ReadsBody(i, context) == i \in {1, 2, 3, 4, 6} \/ (i = 5 /\ CrossrefReadsBody(context))

fallbackTitles ==
    << "Wayback snapshot", "Wayback capturas", "OpenAlex", "DOAJ", "Crossref",
       "Semantic Scholar", "Archive.today / Archive.ph" >>

\* `check-${index}`, index counted from 0
FallbackId(i) ==
    << "check-0", "check-1", "check-2", "check-3", "check-4", "check-5", "check-6" >>[i]

\* SettledItem reading fallbackTitles one place too far
SettledItemOffByOne(item, i) ==
    IF item.status = "fulfilled" THEN item.value[1]
    ELSE CheckResult(FallbackId(i),
                     IF i < 7 THEN fallbackTitles[i + 1]
                     ELSE <<"Fonte 1", "Fonte 2", "Fonte 3", "Fonte 4", "Fonte 5", "Fonte 6", "Fonte 7">>[i],
                     "not_working",
                     Lit("A verificacao falhou antes de retornar resultado."), <<>>)

\* one element of settled.map((item, index) => ...); fallbackTitles[index] is
\* defined for each of the seven indexes, so `Fonte ${index + 1}` is never used
SettledItem(item, i) ==
    IF item.status = "fulfilled" THEN item.value[1]
    ELSE CheckResult(FallbackId(i), fallbackTitles[i], "not_working",
                     Lit("A verificacao falhou antes de retornar resultado."), <<>>)

\* AsyncResults keeping only the checks that did not fail
AsyncResultsDropsFailures(promises) ==
    SelectSeq([i \in Sources |-> SettledItem(promises[i], i)],
              LAMBDA result : result.status # "not_working")

\* AsyncResults as a loop that gives up at the first failed check: the checks
\* after it get the fallback result
AsyncResultsStopsAtFailure(promises) ==
    [i \in Sources |->
        IF \E j \in 1..(i - 1) : SettledItem(promises[j], j).status = "not_working"
        THEN SettledItem(Rejected, i)
        ELSE SettledItem(promises[i], i)]

\* AsyncResults collected last check first
AsyncResultsReversed(promises) == [i \in Sources |-> SettledItem(promises[8 - i], 8 - i)]

\* asyncResults: the settled promises mapped in the order of the checks array
AsyncResults(promises) == [i \in Sources |-> SettledItem(promises[i], i)]

\* AllSettled as Promise.race would have it: one settled promise is enough
AnySettled(promises) == \E i \in Sources : promises[i].status # "pending"

\* Promise.allSettled(checks) resolves when no promise is pending
AllSettled(promises) == \A i \in Sources : promises[i].status # "pending"

VARIABLES
    input,            \* useState: the text field
    submittedUrl,     \* useState
    loading,          \* useState
    validationError,  \* useState
    results,          \* useState: the result buffer
    handler,          \* handleSubmit: "idle", or "awaiting" Promise.allSettled
    context,          \* the CheckContext of the running handler, None before
    pc,               \* per check: "idle", "fetch", "json" or "done"
    response,         \* per check: its local response, while it is running
    settled,          \* per check: its promise
    requests,         \* per check: the endpoints it has passed to fetch in this run
    setResultsLog     \* the setResults calls of the last run: how many promises
                      \* were settled, and how many entries were written

VARIABLES
    outcomes,         \* history: what the request of each check of this run came to
    baseline          \* history: the outcomes and the results of an earlier run

history == << outcomes, baseline >>

vars == << input, submittedUrl, loading, validationError, results, handler, context,
           pc, response, settled, requests, setResultsLog, outcomes, baseline >>

NoResponse == [net |-> "none", ok |-> FALSE]

\* results.filter((result) => result.status === status).length
CountStatus(list, status) == Len(SelectSeq(list, LAMBDA result : result.status = status))

\* summary with the status of notWorking misspelt
summaryMisspelt ==
    [working |-> CountStatus(results, "working"),
     notWorking |-> CountStatus(results, "not working"),
     unknown |-> CountStatus(results, "unknown")]

\* the useMemo over results
summary ==
    [working |-> CountStatus(results, "working"),
     notWorking |-> CountStatus(results, "not_working"),
     unknown |-> CountStatus(results, "unknown")]

\* no request has been made, no run recorded
NoHistory ==
    /\ outcomes = [i \in Sources |-> "none"]
    /\ baseline = None

Init ==
    /\ NoHistory
    /\ input = <<>>
    /\ submittedUrl = <<>>
    /\ loading = FALSE
    /\ validationError = ""
    /\ results = <<>>
    /\ handler = "idle"
    /\ context = None
    /\ pc = [i \in Sources |-> "idle"]
    /\ response = [i \in Sources |-> NoResponse]
    /\ settled = [i \in Sources |-> Pending]
    /\ requests = [i \in Sources |-> <<>>]
    /\ setResultsLog = <<>>

(* ------------------------------------------------------------------ *)
(* The environment: what the user types and what the services answer    *)
(* ------------------------------------------------------------------ *)

\* "a.io/p-12.pdf": no scheme, no DOI
InputPlain == <<"a", ".", "i", "o", "/", "p", "-", "1", "2", ".", "p", "d", "f">>

\* " HTTP://d.io/10.1234/x1 ": upper-case scheme, a DOI in the path, blanks around
InputDoi ==
    <<" ", "H", "T", "T", "P", ":", "/", "/", "d", ".", "i", "o", "/",
      "1", "0", ".", "1", "2", "3", "4", "/", "x", "1", " ">>

\* "a b": the host holds a space, the URL constructor throws
InputBadHost == <<"a", " ", "b">>

\* what the user can type: nothing, blanks only, a malformed URL, two valid URLs
RawInputs == {<<>>, <<" ", " ">>, InputBadHost, InputPlain, InputDoi}

FetchOutcomes == {NetworkError, HttpResponse(FALSE), HttpResponse(TRUE)}

SnapshotUrl == <<"w", ".", "o", "/", "w", "e", "b", "/", "2", "0", "/", "a">>

SnapshotTimestamp == <<"2", "0", "2", "4", "0", "1", "0", "2", "0", "3", "0", "4", "0", "5">>

WaybackBody(closest) == JsonBody([archived_snapshots |-> Some([closest |-> closest])])

Snapshot(available, url) ==
    Some([available |-> available, timestamp |-> Some(SnapshotTimestamp), url |-> url])

CdxHeader == << <<"t">>, <<"o">>, <<"s">> >>

CdxRow(timestamp) == << timestamp, <<"a">>, <<"2", "0", "0">> >>

Work(oaUrl, locations) ==
    [display_name |-> <<"p">>, publication_year |-> Some(2024),
     open_access |-> Some([oa_url |-> oaUrl]), locations |-> locations]

Paper(url) == [title |-> Some(<<"p">>), url |-> url, openAccessPdf |-> None]

\* a body of source i that holds a candidate
FoundBody(i) ==
    CASE i = 1 -> WaybackBody(Snapshot(TRUE, Some(SnapshotUrl)))
      [] i = 2 -> JsonBody(<<CdxHeader, CdxRow(<<"2", "0">>)>>)
      [] i = 3 -> JsonBody([results |-> Some(<<Work(Some(<<"o", "a">>), None)>>)])
      [] i = 4 -> JsonBody([total |-> Some(2)])
      [] i = 5 -> JsonBody([message |-> Some([items |-> Some(<<[DOI |-> <<"d">>]>>)])])
      [] i = 6 -> JsonBody([data |-> Some(<<Paper(Some(<<"s", "s">>))>>)])

\* a well-formed body of source i that holds no candidate
EmptyBody(i) ==
    CASE i = 1 -> WaybackBody(Snapshot(FALSE, None))
      [] i = 2 -> JsonBody(<<CdxHeader>>)
      [] i = 3 -> JsonBody([results |-> Some(<<Work(None, None)>>)])
      [] i = 4 -> JsonBody([total |-> Some(0)])
      [] i = 5 -> JsonBody([message |-> Some([items |-> Some(<<>>)])])
      [] i = 6 -> JsonBody([data |-> Some(<<Paper(None)>>)])

\* what response.json() of check i settles with: it rejects on an unparseable
\* body, or resolves with null (a body that violates the schema), or with a body
\* that holds a candidate; checkArchiveToday never calls it
JsonOutcomes(i) == IF i = 7 THEN {} ELSE {MalformedBody, NullBody, FoundBody(i)}

(* ------------------------------------------------------------------ *)
(* Actions                                                              *)
(* ------------------------------------------------------------------ *)

\* onChange of the text field: setInput(event.target.value). handleSubmit reads
\* the field once, when it starts; typing while it awaits is left out
onChange(value) ==
    /\ handler = "idle"
    /\ input # value
    /\ input' = value
    /\ UNCHANGED << submittedUrl, loading, validationError, results, handler, context,
                    pc, response, settled, requests, setResultsLog >>

\* SubmitEnabled for a button that is never disabled
SubmitAlwaysEnabled == TRUE

\* the submit button is rendered with disabled = loading
SubmitEnabled == ~loading

\* the CheckContext handleSubmit derives from the normalized URL
BuildContext(url) ==
    [url |-> url, doi |-> extractDoi(url), titleHint |-> extractTitleHint(url),
     host |-> extractHost(url)]

\* StartChecks with a checkCrossref that does not return from its DOI branch and
\* goes on to the search request
StartChecksCrossrefTwice(ctx) ==
    /\ context' = Some(ctx)
    /\ pc' = [i \in Sources |-> "fetch"]
    /\ requests' = [i \in Sources |->
                      IF i = 5 /\ ctx.doi # None
                      THEN <<EndpointAt(i, ctx),
                             Tpl("https://api.crossref.org/works?query.bibliographic=",
                                 encodeURIComponent(OrElse(ctx.titleHint, ctx.url)), "&rows=3")>>
                      ELSE <<EndpointAt(i, ctx)>>]

\* the seven checks are called: each runs up to its fetch
StartChecks(ctx) ==
    /\ context' = Some(ctx)
    /\ pc' = [i \in Sources |-> "fetch"]
    /\ requests' = [i \in Sources |-> <<EndpointAt(i, ctx)>>]

\* SubmitNormalized whose catch block leaves submittedUrl as it was
SubmitNormalizedKeepsUrl(normalized) ==
    IF normalized.ok
    THEN /\ validationError' = ""
         /\ submittedUrl' = normalized.url
         /\ loading' = TRUE
         /\ StartChecks(BuildContext(normalized.url))
         /\ handler' = "awaiting"
    ELSE /\ validationError' = normalized.error
         /\ UNCHANGED submittedUrl
         /\ loading' = FALSE
         /\ handler' = "idle"
         /\ context' = None
         /\ pc' = [i \in Sources |-> "idle"]
         /\ requests' = [i \in Sources |-> <<>>]

\* SubmitNormalized that calls setLoading(true) before normalizeUrl and has no
\* finally block
SubmitNormalizedLoadsFirst(normalized) ==
    IF normalized.ok
    THEN /\ validationError' = ""
         /\ submittedUrl' = normalized.url
         /\ loading' = TRUE
         /\ StartChecks(BuildContext(normalized.url))
         /\ handler' = "awaiting"
    ELSE /\ validationError' = normalized.error
         /\ submittedUrl' = <<>>
         /\ loading' = TRUE
         /\ handler' = "idle"
         /\ context' = None
         /\ pc' = [i \in Sources |-> "idle"]
         /\ requests' = [i \in Sources |-> <<>>]

\* handleSubmit from the call of normalizeUrl to its await, or to its end when
\* normalizeUrl throws
SubmitNormalized(normalized) ==
    IF normalized.ok
    THEN /\ validationError' = ""
         /\ submittedUrl' = normalized.url
         /\ loading' = TRUE
         /\ StartChecks(BuildContext(normalized.url))
         /\ handler' = "awaiting"
    ELSE /\ validationError' = normalized.error
         /\ submittedUrl' = <<>>
         /\ loading' = FALSE
         /\ handler' = "idle"
         /\ context' = None
         /\ pc' = [i \in Sources |-> "idle"]
         /\ requests' = [i \in Sources |-> <<>>]

\* handleSubmit without its setResults([])
handleSubmitKeepsResults ==
    /\ SubmitEnabled
    /\ handler = "idle"
    /\ UNCHANGED results
    /\ setResultsLog' = <<>>
    /\ response' = [i \in Sources |-> NoResponse]
    /\ settled' = [i \in Sources |-> Pending]
    /\ SubmitNormalized(normalizeUrl(input))
    /\ UNCHANGED input

\* handleSubmit behind a button that stays enabled while loading
handleSubmitWhileLoading ==
    /\ results' = <<>>
    /\ setResultsLog' = <<[settled |-> 0, entries |-> 0]>>
    /\ response' = [i \in Sources |-> NoResponse]
    /\ settled' = [i \in Sources |-> Pending]
    /\ SubmitNormalized(normalizeUrl(input))
    /\ UNCHANGED input

\* handleSubmit up to its await: the error and the results are cleared, the
\* input is validated and, when it is valid, the checks are started.  The
\* promises and the request record of the run before are dropped.
handleSubmit ==
    /\ SubmitEnabled
    /\ handler = "idle"
    /\ results' = <<>>
    /\ setResultsLog' = <<[settled |-> 0, entries |-> 0]>>
    /\ response' = [i \in Sources |-> NoResponse]
    /\ settled' = [i \in Sources |-> Pending]
    /\ SubmitNormalized(normalizeUrl(input))
    /\ UNCHANGED input

\* the fetch of check i settles: the check returns, or goes on to response.json()
FetchSettles(i, r) ==
    /\ pc[i] = "fetch"
    /\ IF r.net = "response" /\ r.ok /\ ReadsBody(i, context[1])
       THEN /\ pc' = [pc EXCEPT ![i] = "json"]
            /\ response' = [response EXCEPT ![i] = r]
            /\ UNCHANGED settled
       ELSE /\ pc' = [pc EXCEPT ![i] = "done"]
            /\ response' = [response EXCEPT ![i] = NoResponse]
            /\ settled' = [settled EXCEPT ![i] = CheckAt(i, context[1], r, NoBody)]
    /\ UNCHANGED << input, submittedUrl, loading, validationError, results, handler,
                    context, requests, setResultsLog >>

\* response.json() of check i settles and the check returns
JsonSettles(i, b) ==
    /\ pc[i] = "json"
    /\ pc' = [pc EXCEPT ![i] = "done"]
    /\ response' = [response EXCEPT ![i] = NoResponse]
    /\ settled' = [settled EXCEPT ![i] = CheckAt(i, context[1], response[i], b)]
    /\ UNCHANGED << input, submittedUrl, loading, validationError, results, handler,
                    context, requests, setResultsLog >>

\* Publish without the finally block
PublishWithoutFinally ==
    /\ handler = "awaiting"
    /\ AllSettled(settled)
    /\ results' = AsyncResults(settled) \o buildUnknownChecks(context[1])
    /\ setResultsLog' = Append(setResultsLog,
                               [settled |-> Cardinality({i \in Sources : settled[i].status # "pending"}),
                                entries |-> Len(results')])
    /\ handler' = "idle"
    /\ UNCHANGED << input, submittedUrl, loading, validationError, context, pc, response,
                    settled, requests >>

\* handleSubmit after its await: the results are published, then the finally block
Publish ==
    /\ handler = "awaiting"
    /\ AllSettled(settled)
    /\ results' = AsyncResults(settled) \o buildUnknownChecks(context[1])
    /\ setResultsLog' = Append(setResultsLog,
                               [settled |-> Cardinality({i \in Sources : settled[i].status # "pending"}),
                                entries |-> Len(results')])
    /\ loading' = FALSE
    /\ handler' = "idle"
    /\ UNCHANGED << input, submittedUrl, validationError, context, pc, response,
                    settled, requests >>

\* the history variables are not recorded in this specification
Next ==
    \/ \E value \in RawInputs : onChange(value) /\ UNCHANGED history
    \/ handleSubmit /\ UNCHANGED history
    \/ \E i \in Sources : \E r \in FetchOutcomes : FetchSettles(i, r) /\ UNCHANGED history
    \/ \E i \in Sources : \E b \in JsonOutcomes(i) : JsonSettles(i, b) /\ UNCHANGED history
    \/ Publish /\ UNCHANGED history

Spec == Init /\ [][Next]_vars

(* ------------------------------------------------------------------ *)
(* Properties of the aggregation                                        *)
(* ------------------------------------------------------------------ *)

Statuses == {"working", "not_working", "unknown"}

\* the titles of the nine configured sources, in declaration order
SourceTitles == fallbackTitles \o <<"Google Scholar (manual)", "BASE (manual)">>

\* the last submission passed validation and its handler has ended
Completed == handler = "idle" /\ submittedUrl # <<>>

NonEmptyText(text) == text.pre # "" \/ text.arg # <<>> \/ text.post # ""

\* C1: when a submission whose input passed validation has ended, whatever each
\* of the seven requests came to, results holds exactly 9 entries, one per
\* configured source (no title missing, none twice), each with a status among
\* working, not_working, unknown; results never holds anything else.
C1_NineResults ==
    /\ Completed => Len(results) = 9
    /\ results # <<>> =>
         /\ Len(results) = 9
         /\ \A k \in 1..9 : results[k].status \in Statuses
         /\ {results[k].title : k \in 1..9} = {SourceTitles[k] : k \in 1..9}
         /\ Cardinality({results[k].title : k \in 1..9}) = 9

\* a completed submission in which requests failed and requests succeeded
C1_Witness ==
    /\ Completed
    /\ Len(results) = 9
    /\ results[1].status = "not_working"
    /\ results[2].status = "working"
    /\ results[4].status = "not_working"
    /\ results[7].status = "unknown"

\* C2: in the published results the i-th entry belongs to the i-th source of the
\* checks array (Wayback closest, Wayback CDX, OpenAlex, DOAJ, Crossref, Semantic
\* Scholar, Archive.today), then come Google Scholar and BASE, in whatever order
\* the seven responses arrived.
C2_DeclarationOrder ==
    results # <<>> =>
        /\ [k \in 1..7 |-> results[k].id] =
             << "wayback-closest", "wayback-cdx", "openalex", "doaj", "crossref",
                "semantic-scholar", "archive-today" >>
        /\ [k \in 1..9 |-> results[k].title] = SourceTitles
        /\ results[8].id = "google-scholar-manual"
        /\ results[9].id = "base-manual"

\* results are published after a run in which the checks took different paths
C2_Witness ==
    /\ Completed
    /\ Len(results) = 9
    /\ results[1].status = "working"
    /\ results[6].status = "not_working"
    /\ results[9].id = "base-manual"

\* C4 as claimed: within one submission setResults is called once only, after
\* all seven checks have settled, and not before or during the fan-out.
C4_WrittenOnceAfterSettle ==
    /\ handler = "awaiting" => setResultsLog = <<>>
    /\ Completed => Len(setResultsLog) = 1
    /\ \A k \in 1..Len(setResultsLog) : setResultsLog[k].settled = 7

\* C4 amended: a submission calls setResults with the empty list when the handler
\* starts, before the fan-out; while the handler awaits the checks there is no
\* further call; the 9 results are written by one call, made when all seven
\* promises have settled.
C4_ClearedThenWrittenOnce ==
    /\ handler = "awaiting" => setResultsLog = <<[settled |-> 0, entries |-> 0]>> /\ results = <<>>
    /\ Completed => setResultsLog = <<[settled |-> 0, entries |-> 0], [settled |-> 7, entries |-> 9]>>
    /\ Len(setResultsLog) <= 2
    /\ \A k \in 1..Len(setResultsLog) :
         setResultsLog[k].entries # 0 => setResultsLog[k].settled = 7

\* the results have been written after a fan-out
C4_Witness ==
    /\ Completed
    /\ Len(setResultsLog) = 2
    /\ setResultsLog[2].entries = 9
    /\ results # <<>>

\* C5: no promise of a check is ever rejected: whatever its request came to
\* (network exception, non-2xx status, unparseable or null body) a check that has
\* returned has fulfilled its promise with a CheckResult.
C5_NoCheckRejects ==
    \A i \in Sources :
        /\ settled[i].status # "rejected"
        /\ pc[i] = "done" =>
             /\ settled[i].status = "fulfilled"
             /\ settled[i].value[1].status \in Statuses

\* all seven checks have returned and none found anything: every one of them
\* went through a failure
C5_Witness ==
    /\ handler = "awaiting"
    /\ \A i \in Sources : pc[i] = "done" /\ settled[i].status = "fulfilled"
    /\ \A i \in Sources : settled[i].value[1].status # "working"
    /\ settled[1].value[1].summary = Lit("Falha de rede ao consultar Wayback.")
    /\ settled[3].value[1].summary = Lit("API OpenAlex nao retornou sucesso.")

(* ------------------------------------------------------------------ *)
(* Properties of the checks' failure handling                           *)
(* ------------------------------------------------------------------ *)

\* the result a check returned to the aggregator, in the next state
Returned(i) == settled'[i].value[1]

\* check i returns in this step because its request got a non-2xx response
NonSuccessStatus(i) == FetchSettles(i, HttpResponse(FALSE))

\* check i returns in this step because its fetch threw
NetworkException(i) == FetchSettles(i, NetworkError)

\* C7 as claimed: each of the seven sources answers a non-2xx response with a
\* not_working result that has a summary and at least one fallback link.
C7_NonSuccessIsNotWorking ==
    [][\A i \in Sources :
         NonSuccessStatus(i) =>
            /\ settled'[i].status = "fulfilled"
            /\ Returned(i).status = "not_working"
            /\ NonEmptyText(Returned(i).summary)
            /\ Len(Returned(i).links) >= 1]_vars

\* C7 amended: a non-2xx response yields a not_working result for the six
\* sources from Wayback closest to Semantic Scholar and an unknown result for
\* Archive.today; each of the seven results has a summary and at least one
\* fallback link.
C7_NonSuccessByCheck ==
    [][\A i \in Sources :
         NonSuccessStatus(i) =>
            /\ settled'[i].status = "fulfilled"
            /\ Returned(i).status = (IF i = 7 THEN "unknown" ELSE "not_working")
            /\ NonEmptyText(Returned(i).summary)
            /\ Len(Returned(i).links) >= 1]_vars

\* the checks of Wayback and Archive.today have returned from a non-2xx response
C7_Witness ==
    /\ pc[1] = "done"
    /\ settled[1].value[1].summary = Lit("API do Internet Archive nao respondeu com sucesso.")
    /\ settled[1].value[1].status = "not_working"
    /\ pc[7] = "done"
    /\ settled[7].value[1].summary =
         Lit("Fonte adicionada, mas o navegador nao confirmou a consulta automaticamente.")
    /\ settled[7].value[1].status = "unknown"

\* C8: when its fetch throws, a check from Wayback closest to Semantic Scholar
\* returns a not_working result and the check of Archive.today an unknown one.
C8_NetworkExceptionByCheck ==
    [][\A i \in Sources :
         NetworkException(i) =>
            /\ settled'[i].status = "fulfilled"
            /\ Returned(i).status = (IF i = 7 THEN "unknown" ELSE "not_working")]_vars

\* the checks of Crossref (which reads no body when the URL holds a DOI) and of
\* Archive.today have returned from their catch blocks
C8_Witness ==
    /\ context # None
    /\ context[1].doi # None
    /\ pc[5] = "done"
    /\ settled[5].value[1].summary = Lit("Falha de rede ao consultar Crossref.")
    /\ settled[5].value[1].status = "not_working"
    /\ pc[7] = "done"
    /\ settled[7].value[1].summary =
         Lit("Fonte adicionada; validacao automatica pode falhar por restricao de CORS.")
    /\ settled[7].value[1].status = "unknown"

\* C9: a submission whose input fails validation invokes no check and issues no
\* request, and leaves validationError non-empty, results empty, submittedUrl
\* cleared and loading false.
C9_ValidationFailure ==
    [][(handleSubmit /\ ~normalizeUrl(input).ok) =>
          /\ \A i \in Sources : pc'[i] = "idle" /\ requests'[i] = <<>> /\ settled'[i] = Pending
          /\ validationError' # ""
          /\ results' = <<>>
          /\ submittedUrl' = <<>>
          /\ loading' = FALSE
          /\ handler' = "idle"]_vars

\* a malformed input has been submitted: the handler has ended with the error of new URL
C9_Witness ==
    /\ validationError = "Invalid URL"
    /\ input = InputBadHost
    /\ Len(setResultsLog) = 1
    /\ results = <<>>
    /\ submittedUrl = <<>>
    /\ \A i \in Sources : requests[i] = <<>>

(* ------------------------------------------------------------------ *)
(* The aggregator on settled arrays that hold rejected promises         *)
(* ------------------------------------------------------------------ *)

\* what check i returns when its request finds a candidate
SuccessOf(i, ctx) ==
    CheckAt(i, ctx, HttpResponse(TRUE), IF ReadsBody(i, ctx) THEN FoundBody(i) ELSE NoBody)

\* what check i returns when its fetch throws
FailureOf(i, ctx) == CheckAt(i, ctx, NetworkError, NoBody)

\* what Promise.allSettled may hold at index i: a rejected promise, or a promise
\* fulfilled by check i
SettledKinds == {"rejected", "failure", "success"}

SettledOutcome(i, ctx, kind) ==
    CASE kind = "rejected" -> Rejected
      [] kind = "failure" -> FailureOf(i, ctx)
      [] kind = "success" -> SuccessOf(i, ctx)

\* a CheckContext whose titleHint is the empty string
WithoutTitleHint(ctx) == [ctx EXCEPT !.titleHint = <<>>]

\* handleSubmit at line 667, Promise.allSettled just resolved, for the context of
\* a valid input, with its title hint or with an empty one, and any array of
\* settled promises
InitSettled ==
    /\ NoHistory
    /\ input \in {InputPlain, InputDoi}
    /\ context \in {Some(BuildContext(normalizeUrl(input).url)),
                    Some(WithoutTitleHint(BuildContext(normalizeUrl(input).url)))}
    /\ submittedUrl = context[1].url
    /\ loading = TRUE
    /\ validationError = ""
    /\ results = <<>>
    /\ handler = "awaiting"
    /\ pc = [i \in Sources |-> "done"]
    /\ response = [i \in Sources |-> NoResponse]
    /\ requests = [i \in Sources |-> <<EndpointAt(i, context[1])>>]
    /\ setResultsLog = <<[settled |-> 0, entries |-> 0]>>
    /\ \E kinds \in [Sources -> SettledKinds] :
          settled = [i \in Sources |-> SettledOutcome(i, context[1], kinds[i])]

NextAggregator == Publish /\ UNCHANGED history

SpecAggregator == InitSettled /\ [][NextAggregator]_vars

\* the title under which check i itself reports
TitleOfSource(i) == FailureOf(i, context[1]).value[1].title

\* C6: should the promise of check i be rejected, the aggregator puts at
\* position i a not_working result that carries the title of source i and the
\* generic summary; every other position holds the value its check resolved
\* with; the seven automatic results are there, in declaration order.
C6_RejectedBranch ==
    results # <<>> =>
        /\ Len(results) = 9
        /\ \A i \in Sources :
             IF settled[i].status = "rejected"
             THEN /\ results[i].status = "not_working"
                  /\ results[i].title = TitleOfSource(i)
                  /\ results[i].summary = Lit("A verificacao falhou antes de retornar resultado.")
             ELSE results[i] = settled[i].value[1]
        /\ [k \in 1..7 |-> results[k].title] = [k \in 1..7 |-> TitleOfSource(k)]

\* results published from an array in which the promises of OpenAlex and of
\* Archive.today were rejected and the others fulfilled
C6_Witness ==
    /\ results # <<>>
    /\ settled[3].status = "rejected"
    /\ settled[7].status = "rejected"
    /\ \A i \in Sources \ {3, 7} : settled[i].status = "fulfilled"
    /\ results[3].id = "check-2"
    /\ results[1].status = "working"

(* ------------------------------------------------------------------ *)
(* normalizeUrl on bounded inputs                                       *)
(* ------------------------------------------------------------------ *)

\* the longest input built from NormalizeAlphabet
MaxInputLen == 4

NormalizeAlphabet == {"f", "t", "p", ":", "/", " ", "."}

\* "ftp://host/path"
InputFtp ==
    <<"f", "t", "p", ":", "/", "/", "h", "o", "s", "t", "/", "p", "a", "t", "h">>

\* "https://a.io/x"
InputHttps == <<"h", "t", "t", "p", "s", ":", "/", "/", "a", ".", "i", "o", "/", "x">>

\* every string over NormalizeAlphabet of at most MaxInputLen characters, and
\* the inputs named above
NormalizeInputs ==
    UNION {[1..n -> NormalizeAlphabet] : n \in 0..MaxInputLen}
        \cup RawInputs \cup {InputFtp, InputHttps}

\* the form is mounted with some text in the field
InitNormalize ==
    /\ NoHistory
    /\ input \in NormalizeInputs
    /\ submittedUrl = <<>>
    /\ loading = FALSE
    /\ validationError = ""
    /\ results = <<>>
    /\ handler = "idle"
    /\ context = None
    /\ pc = [i \in Sources |-> "idle"]
    /\ response = [i \in Sources |-> NoResponse]
    /\ settled = [i \in Sources |-> Pending]
    /\ requests = [i \in Sources |-> <<>>]
    /\ setResultsLog = <<>>

\* the form is submitted: handleSubmit applies normalizeUrl to the input
NextNormalize == handleSubmit /\ UNCHANGED history

SpecNormalize == InitNormalize /\ [][NextNormalize]_vars

\* the characters of a URI scheme after its first letter
SchemeChars == LowerLetters \cup UpperLetters \cup Digits \cup {"+", "-", "."}

\* value reads scheme://..., with a scheme other than http and https
HasDisallowedScheme(value) ==
    /\ IndexOf(value, <<":", "/", "/">>) > 1
    /\ IsLetter(value[1])
    /\ \A k \in 1..(IndexOf(value, <<":", "/", "/">>) - 1) : value[k] \in SchemeChars
    /\ LowerStr(Take(value, IndexOf(value, <<":", "/", "/">>) - 1))
         \notin {<<"h", "t", "t", "p">>, <<"h", "t", "t", "p", "s">>}

\* C10, for the inputs that name a scheme: an input whose scheme is neither http
\* nor https (such as ftp://host/path) fails validation: its submission ends
\* with a validation error and without a submitted URL.
C10_DisallowedSchemeFails ==
    (setResultsLog # <<>> /\ HasDisallowedScheme(trim(input))) =>
        /\ validationError # ""
        /\ submittedUrl = <<>>

\* what the code does with ftp://host/path: it is accepted as https://ftp//host/path
C10_FtpAccepted ==
    (setResultsLog # <<>> /\ input = InputFtp) =>
        /\ validationError = ""
        /\ submittedUrl = HttpsPrefix \o <<"f", "t", "p", "/", "/", "h", "o", "s", "t", "/", "p", "a", "t", "h">>

(* ------------------------------------------------------------------ *)
(* Two runs on the same URL                                             *)
(* ------------------------------------------------------------------ *)

\* the outcomes drawn in the first run: the fetch throws, or the check finds a
\* candidate
BaselineKinds == {"error", "found"}

\* the outcome of check i when fetch settles with r ("none" while the body is
\* still to be read)
FetchKind(i, r) ==
    IF r.net = "error" THEN "error"
    ELSE IF ~r.ok THEN "status"
    ELSE IF ReadsBody(i, context[1]) THEN "none" ELSE "found"

\* BodyKind that records every body as an answer
BodyKindCoarse(b) == "found"

\* the outcome of a check when response.json() settles with b
BodyKind(b) ==
    CASE b.kind = "malformed" -> "malformed"
      [] b.kind = "null" -> "null"
      [] b.kind = "value" -> "found"

\* the sources whose outcome in this run is not the one of the recorded run
Differing(o) == {i \in Sources : o[i] # "none" /\ o[i] # baseline[1].outcomes[i]}

\* the first run draws from BaselineKinds; a later run departs from the recorded
\* run in the outcome of one source at most
OutcomesAllowed(o) ==
    IF baseline = None
    THEN \A i \in Sources : o[i] \in BaselineKinds \cup {"none"}
    ELSE Cardinality(Differing(o)) <= 1

\* the checks settle in the order of the checks array (the specification Spec
\* covers the other orders)
InOrder(i) == \A j \in 1..(i - 1) : pc[j] = "done"

InitIsolation ==
    /\ NoHistory
    /\ input \in {InputPlain, InputDoi}
    /\ submittedUrl = <<>>
    /\ loading = FALSE
    /\ validationError = ""
    /\ results = <<>>
    /\ handler = "idle"
    /\ context = None
    /\ pc = [i \in Sources |-> "idle"]
    /\ response = [i \in Sources |-> NoResponse]
    /\ settled = [i \in Sources |-> Pending]
    /\ requests = [i \in Sources |-> <<>>]
    /\ setResultsLog = <<>>

SubmitAgain ==
    /\ handleSubmit
    /\ outcomes' = [i \in Sources |-> "none"]
    /\ UNCHANGED baseline

FetchRecorded(i, r) ==
    /\ InOrder(i)
    /\ FetchSettles(i, r)
    /\ outcomes' = [outcomes EXCEPT ![i] = FetchKind(i, r)]
    /\ OutcomesAllowed(outcomes')
    /\ UNCHANGED baseline

JsonRecorded(i, b) ==
    /\ JsonSettles(i, b)
    /\ outcomes' = [outcomes EXCEPT ![i] = BodyKind(b)]
    /\ OutcomesAllowed(outcomes')
    /\ UNCHANGED baseline

PublishRecorded ==
    /\ Publish
    /\ baseline' = IF baseline = None
                   THEN Some([outcomes |-> outcomes, results |-> results'])
                   ELSE baseline
    /\ UNCHANGED outcomes

NextIsolation ==
    \/ SubmitAgain
    \/ \E i \in Sources : \E r \in FetchOutcomes : FetchRecorded(i, r)
    \/ \E i \in Sources : \E b \in JsonOutcomes(i) : JsonRecorded(i, b)
    \/ PublishRecorded

SpecIsolation == InitIsolation /\ [][NextIsolation]_vars

\* C3: two runs on the same URL that differ in the outcome of one source (it
\* fails in one way or another in one run, it answers in the other) publish the
\* same entry for every other source, the two manual entries included.
C3_FailureIsolation ==
    (baseline # None /\ results # <<>>) =>
        /\ \A i \in Sources :
             outcomes[i] = baseline[1].outcomes[i] => results[i] = baseline[1].results[i]
        /\ results[8] = baseline[1].results[8]
        /\ results[9] = baseline[1].results[9]

\* the second run has published; OpenAlex answered in the first run and returned
\* a null body in the second; Wayback failed in both
C3_Witness ==
    /\ baseline # None
    /\ results # <<>>
    /\ baseline[1].outcomes[1] = "error"
    /\ outcomes[1] = "error"
    /\ baseline[1].outcomes[3] = "found"
    /\ outcomes[3] = "null"
    /\ results[3] # baseline[1].results[3]
    /\ results[3].status = "not_working"
    /\ baseline[1].results[3].status = "working"

(* ------------------------------------------------------------------ *)
(* Properties of the contents of the results                            *)
(* ------------------------------------------------------------------ *)

\* what a manual entry searches for: the title hint, the URL when it is empty
ManualQuery == IF context[1].titleHint # <<>> THEN context[1].titleHint ELSE context[1].url

\* C11: the published results end with the entries google-scholar-manual and
\* base-manual, in this order; both have status unknown whatever the seven
\* promises settled with, and each has exactly one link, whose address holds the
\* encoded title hint, or the encoded URL when the title hint is empty.
C11_ManualEntries ==
    results # <<>> =>
        /\ Len(results) = 9
        /\ results[8].id = "google-scholar-manual"
        /\ results[9].id = "base-manual"
        /\ \A k \in {8, 9} :
             /\ results[k].status = "unknown"
             /\ Len(results[k].links) = 1
             /\ results[k].links[1].href.arg = encodeURIComponent(ManualQuery)
        /\ results[8].links[1].href.pre = "https://scholar.google.com/scholar?q="
        /\ results[9].links[1].href.pre = "https://www.base-search.net/Search/Results?lookfor="

\* results published for a context without title hint, after a rejected and a
\* successful check
C11_Witness ==
    /\ results # <<>>
    /\ context[1].titleHint = <<>>
    /\ results[9].links[1].href.arg = encodeURIComponent(context[1].url)
    /\ settled[1].status = "rejected"
    /\ results[2].status = "working"

(* ------------------------------------------------------------------ *)
(* One check at a time, on the bodies its API can answer with           *)
(* ------------------------------------------------------------------ *)

Location(pdf, landing) == [pdf_url |-> pdf, landing_page_url |-> landing]

PdfUrl == <<"p", "d", "f">>

PageUrl == <<"p", "a", "x">>

\* a URL that only locations after the first hold
LaterUrl == <<"p", "d", "f", "2">>

\* the works of an OpenAlex answer: with and without oa_url, without locations,
\* with locations that hold a URL in the first or only in the second place
Works ==
    { Work(Some(<<"o", "a">>), None),
      Work(Some(<<"o", "a">>), Some(<<Location(Some(PdfUrl), None)>>)),
      Work(Some(<<>>), Some(<<Location(Some(PdfUrl), Some(PageUrl))>>)),
      Work(None, None),
      Work(None, Some(<<>>)),
      Work(None, Some(<<Location(None, None)>>)),
      Work(None, Some(<<Location(None, Some(PageUrl)), Location(Some(PdfUrl), None)>>)),
      Work(None, Some(<<Location(None, None), Location(Some(LaterUrl), None)>>)),
      Work(None, Some(<<Location(Some(<<>>), None), Location(None, Some(LaterUrl))>>)) }

PaperWithPdf(url, pdf) ==
    [title |-> None, url |-> url, openAccessPdf |-> Some([url |-> pdf])]

Papers ==
    { Paper(None), Paper(Some(<<"s", "s">>)),
      PaperWithPdf(None, Some(PdfUrl)), PaperWithPdf(Some(<<"s", "s">>), None) }

\* a closest snapshot without timestamp
SnapshotUndated(available, url) ==
    Some([available |-> available, timestamp |-> None, url |-> url])

\* what response.json() of check i can resolve or reject with
BodyOutcomes(i) ==
    {MalformedBody, NullBody} \cup
    CASE i = 1 ->
           { JsonBody([archived_snapshots |-> None]), WaybackBody(None),
             WaybackBody(Snapshot(FALSE, None)), WaybackBody(Snapshot(FALSE, Some(SnapshotUrl))),
             WaybackBody(Snapshot(TRUE, None)), WaybackBody(Snapshot(TRUE, Some(<<>>))),
             WaybackBody(Snapshot(TRUE, Some(SnapshotUrl))),
             WaybackBody(SnapshotUndated(TRUE, Some(SnapshotUrl))) }
      [] i = 2 ->
           { JsonBody(<<>>), JsonBody(<<CdxHeader>>),
             JsonBody(<<CdxHeader, CdxRow(<<"2", "0">>)>>),
             JsonBody(<<CdxHeader, CdxRow(<<"2", "0">>), CdxRow(<<"2", "1">>),
                        CdxRow(<<"2", "2">>), CdxRow(<<"2", "3">>)>>) }
      [] i = 3 ->
           { JsonBody([results |-> None]), JsonBody([results |-> Some(<<>>)]) }
             \cup { JsonBody([results |-> Some(<<w>>)]) : w \in Works }
             \cup { JsonBody([results |-> Some(<<Work(None, None), w>>)]) : w \in Works }
      [] i = 4 ->
           { JsonBody([total |-> None]), JsonBody([total |-> Some(0)]),
             JsonBody([total |-> Some(2)]) }
      [] i = 5 ->
           { JsonBody([message |-> None]), JsonBody([message |-> Some([items |-> None])]),
             JsonBody([message |-> Some([items |-> Some(<<>>)])]),
             JsonBody([message |-> Some([items |-> Some(<<[DOI |-> <<"d">>]>>)])]) }
      [] i = 6 ->
           { JsonBody([data |-> None]), JsonBody([data |-> Some(<<>>)]) }
             \cup { JsonBody([data |-> Some(<<q>>)]) : q \in Papers }
             \cup { JsonBody([data |-> Some(<<Paper(None), q>>)]) : q \in Papers }
      [] i = 7 -> {}

\* "a.io/10.1234/T": a DOI with an upper-case letter
InputDoiUpper ==
    <<"a", ".", "i", "o", "/", "1", "0", ".", "1", "2", "3", "4", "/", "T">>

\* no other check has settled
Alone(i) == \A j \in Sources \ {i} : pc[j] = "fetch"

FetchAlone(i, r) == Alone(i) /\ FetchSettles(i, r)

JsonAlone(i, b) == Alone(i) /\ JsonSettles(i, b)

\* the form is mounted with a valid URL in the field
InitChecks ==
    /\ NoHistory
    /\ input \in {InputPlain, InputDoi, InputDoiUpper, InputHttps, InputFtp}
    /\ submittedUrl = <<>>
    /\ loading = FALSE
    /\ validationError = ""
    /\ results = <<>>
    /\ handler = "idle"
    /\ context = None
    /\ pc = [i \in Sources |-> "idle"]
    /\ response = [i \in Sources |-> NoResponse]
    /\ settled = [i \in Sources |-> Pending]
    /\ requests = [i \in Sources |-> <<>>]
    /\ setResultsLog = <<>>

NextChecks ==
    \/ handleSubmit /\ UNCHANGED history
    \/ \E i \in Sources : \E r \in FetchOutcomes : FetchAlone(i, r) /\ UNCHANGED history
    \/ \E i \in Sources : \E b \in BodyOutcomes(i) : JsonAlone(i, b) /\ UNCHANGED history

SpecChecks == InitChecks /\ [][NextChecks]_vars

\* a work names an open URL: its oa_url, or a URL of one of its locations
HasOpenUrl(work) ==
    \/ work.open_access # None /\ Truthy(work.open_access[1].oa_url)
    \/ /\ work.locations # None
       /\ \E k \in 1..Len(work.locations[1]) :
            \/ Truthy(work.locations[1][k].pdf_url)
            \/ Truthy(work.locations[1][k].landing_page_url)

\* a paper names a URL: its open-access PDF or its page
HasPaperUrl(paper) ==
    \/ paper.openAccessPdf # None /\ Truthy(paper.openAccessPdf[1].url)
    \/ Truthy(paper.url)

\* the elements of a list, absent or present, that satisfy Test
CountOf(list, Test(_)) ==
    IF list = None THEN 0 ELSE Cardinality({k \in 1..Len(list[1]) : Test(list[1][k])})

\* the number of usable candidates the body b of source i holds, read off the
\* schema of the API
Candidates(i, b) ==
    IF b.data = None THEN 0
    ELSE CASE i = 1 -> IF /\ b.data[1].archived_snapshots # None
                          /\ b.data[1].archived_snapshots[1].closest # None
                          /\ b.data[1].archived_snapshots[1].closest[1].available
                          /\ Truthy(b.data[1].archived_snapshots[1].closest[1].url)
                       THEN 1 ELSE 0
           [] i = 2 -> IF Len(b.data[1]) > 1 THEN Len(b.data[1]) - 1 ELSE 0
           [] i = 3 -> CountOf(b.data[1].results, HasOpenUrl)
           [] i = 4 -> IF b.data[1].total = None THEN 0 ELSE b.data[1].total[1]
           [] i = 5 -> IF b.data[1].message = None THEN 0
                       ELSE CountOf(b.data[1].message[1].items, LAMBDA item : TRUE)
           [] i = 6 -> CountOf(b.data[1].data, HasPaperUrl)

\* C12: when the request of an automatic check succeeds, the check returns
\* working if the answer holds at least one usable candidate and not_working if
\* it holds none (a 2xx answer whose body the check does not read is itself the
\* result found); it never returns unknown.
C12_SuccessClassification ==
    [][\A i \in Sources :
         /\ \A b \in BodyOutcomes(i) :
              JsonSettles(i, b) =>
                 Returned(i).status = (IF Candidates(i, b) > 0 THEN "working" ELSE "not_working")
         /\ (FetchSettles(i, HttpResponse(TRUE)) /\ pc'[i] = "done") =>
                 Returned(i).status = "working"]_vars

\* Semantic Scholar has answered with papers that name no URL
C12_Witness ==
    /\ pc[6] = "done"
    /\ settled[6].value[1].status = "not_working"
    /\ settled[6].value[1].summary =
         Lit("Resultados encontrados, mas sem URL aberta direta no payload.")

\* the target of the current submission holds a DOI
HasDoi == context # None /\ context[1].doi # None

\* what a free-text search looks for
TextQuery == IF context[1].titleHint # <<>> THEN context[1].titleHint ELSE context[1].url

\* the requests of OpenAlex and Crossref: by DOI when the target holds one, by
\* text otherwise
DoiRequests ==
    context # None =>
        IF HasDoi
        THEN /\ requests[3][1].pre = "https://api.openalex.org/works?filter=doi:"
             /\ requests[3][1].arg = encodeURIComponent(LowerStr(context[1].doi[1]))
             /\ requests[5][1].pre = "https://api.crossref.org/works/"
             /\ requests[5][1].arg = encodeURIComponent(context[1].doi[1])
        ELSE /\ requests[3][1].pre = "https://api.openalex.org/works?search="
             /\ requests[3][1].arg = encodeURIComponent(TextQuery)
             /\ requests[5][1].pre = "https://api.crossref.org/works?query.bibliographic="
             /\ requests[5][1].arg = encodeURIComponent(TextQuery)

\* with a DOI the check of Crossref returns working exactly when the answer is 2xx
CrossrefByDoi ==
    \A r \in FetchOutcomes :
        (HasDoi /\ FetchSettles(5, r)) =>
            /\ pc'[5] = "done"
            /\ Returned(5).status = "working" <=> (r.net = "response" /\ r.ok)
            /\ Returned(5).status \in {"working", "not_working"}

\* the number of works the answer of OpenAlex lists
Matches(b) ==
    IF b.data = None THEN 0 ELSE CountOf(b.data[1].results, LAMBDA work : TRUE)

\* C13 as claimed: with a DOI, OpenAlex and Crossref request the DOI instead of
\* searching by text, and each returns working exactly when the service confirms
\* a match for the DOI, not_working otherwise; without a DOI both search by title
\* hint or URL.
C13_WorkingOnConfirmedMatch ==
    [][/\ DoiRequests'
       /\ CrossrefByDoi
       /\ \A b \in BodyOutcomes(3) :
            (HasDoi /\ JsonSettles(3, b)) =>
               Returned(3).status = (IF Matches(b) > 0 THEN "working" ELSE "not_working")]_vars

\* C13 amended: with a DOI, OpenAlex and Crossref request the DOI instead of
\* searching by text; Crossref returns working exactly when the answer is 2xx;
\* OpenAlex returns working exactly when one of the works matched names an open
\* URL, and not_working otherwise, also when the DOI was matched; without a DOI
\* both search by title hint or URL.
C13_DoiStrategy ==
    [][/\ DoiRequests'
       /\ CrossrefByDoi
       /\ \A b \in BodyOutcomes(3) :
            (HasDoi /\ JsonSettles(3, b)) =>
               Returned(3).status = (IF Candidates(3, b) > 0 THEN "working" ELSE "not_working")]_vars

\* for a target with a DOI, written with an upper-case letter, OpenAlex has
\* answered 2xx and no work names an open URL
C13_Witness ==
    /\ HasDoi
    /\ context[1].doi[1] # LowerStr(context[1].doi[1])
    /\ requests[3][1].pre = "https://api.openalex.org/works?filter=doi:"
    /\ pc[3] = "done"
    /\ settled[3].value[1].summary =
         Lit("Nenhum link open access direto encontrado nesta consulta.")
    /\ settled[3].value[1].status = "not_working"

\* the URL of a location: its pdf_url, else its landing_page_url, else none
LocationUrl(location) ==
    IF Truthy(location.pdf_url) THEN location.pdf_url
    ELSE IF Truthy(location.landing_page_url) THEN location.landing_page_url
    ELSE None

HasOaUrl(work) == work.open_access # None /\ Truthy(work.open_access[1].oa_url)

\* the URL the claim attributes to a work: oa_url, else the URL of the first
\* location, else none
UrlByFirstLocation(work) ==
    IF HasOaUrl(work) THEN work.open_access[1].oa_url
    ELSE IF work.locations = None \/ work.locations[1] = <<>> THEN None
    ELSE LocationUrl(work.locations[1][1])

\* the places of the locations of a work that hold a URL
UrlPlaces(work) ==
    IF work.locations = None THEN {}
    ELSE {k \in 1..Len(work.locations[1]) : Truthy(LocationUrl(work.locations[1][k]))}

\* oa_url, else the URL of the first location that holds one, else none
UrlByFirstUsableLocation(work) ==
    IF HasOaUrl(work) THEN work.open_access[1].oa_url
    ELSE IF UrlPlaces(work) = {} THEN None
    ELSE LocationUrl(work.locations[1][CHOOSE k \in UrlPlaces(work) :
                                          \A j \in UrlPlaces(work) : k <= j])

\* OpenAlex answers with the work w after a work without any URL: the result
\* links to url if there is one and to nothing else, and is not_working with
\* the search link if there is none
LinksTo(w, url) ==
    JsonSettles(3, JsonBody([results |-> Some(<<Work(None, None), w>>)])) =>
        IF url = None
        THEN /\ Returned(3).status = "not_working"
             /\ Returned(3).links = <<OpenAlexSearchLink(context[1])>>
        ELSE /\ Returned(3).status = "working"
             /\ Len(Returned(3).links) = 1
             /\ Returned(3).links[1].href = Tpl("", url[1], "")

\* C14 as claimed: pickOpenAccessUrl returns open_access.oa_url when present,
\* else the pdf_url of the first location, else the landing_page_url of the
\* first location, else none: no later location is the origin of the URL; a
\* work for which it returns none is not among the links of a working result.
C14_FirstLocationOnly ==
    [][\A w \in Works : LinksTo(w, UrlByFirstLocation(w))]_vars

\* C14 amended: pickOpenAccessUrl returns open_access.oa_url when present; else
\* it goes through the locations in order and returns the pdf_url of the first
\* location that holds a pdf_url or a landing_page_url, or its landing_page_url
\* when it holds no pdf_url; else none. A later location is the origin of the
\* URL when the locations before it hold neither. A work for which it returns
\* none is not among the links of a working result.
C14_FirstUsableLocation ==
    [][\A w \in Works : LinksTo(w, UrlByFirstUsableLocation(w))]_vars

\* OpenAlex has answered with a work whose second location only holds a URL:
\* the result links to it
C14_Witness ==
    /\ pc[3] = "done"
    /\ settled[3].value[1].status = "working"
    /\ Len(settled[3].value[1].links) = 1
    /\ settled[3].value[1].links[1].href = Tpl("", LaterUrl, "")

(* ------------------------------------------------------------------ *)
(* Properties of the requests and of the displayed state                *)
(* ------------------------------------------------------------------ *)

\* C15: in a submission that passed validation each of the seven checks calls
\* fetch once, with or without DOI, and the count stays at one whatever the
\* request comes to: no check calls fetch again after a failed or non-2xx
\* attempt. (A submission that fails validation issues no request.)
C15_OneRequestEach ==
    /\ \A i \in Sources : Len(requests[i]) = (IF context # None THEN 1 ELSE 0)
    /\ (handler = "awaiting" \/ Completed) => context # None

\* for a target with a DOI all seven checks have returned from a failed request
C15_Witness ==
    /\ HasDoi
    /\ \A i \in Sources : pc[i] = "done" /\ Len(requests[i]) = 1
    /\ \A i \in Sources : settled[i].value[1].status # "working"
    /\ settled[5].value[1].summary = Lit("Crossref nao confirmou metadado para o DOI informado.")
    /\ settled[2].value[1].summary = Lit("Falha de rede ao consultar capturas CDX.")

C17_WaybackClosest ==
    [][\A b \in BodyOutcomes(1) :
         (b.kind = "value" /\ JsonSettles(1, b)) =>
            IF Candidates(1, b) > 0
            THEN Returned(1).status = "working"
            ELSE /\ Returned(1).status = "not_working"
                 /\ Returned(1).summary = Lit("Sem snapshot proximo retornado pela API.")
                 /\ Returned(1).links =
                      << Link(Lit("Timeline Wayback"),
                              Tpl("https://web.archive.org/web/*/",
                                  encodeURIComponent(context[1].url), "")) >>]_vars

\* the check has returned for an answer without usable snapshot
C17_Witness ==
    /\ pc[1] = "done"
    /\ settled[1].value[1].status = "not_working"
    /\ settled[1].value[1].summary = Lit("Sem snapshot proximo retornado pela API.")
    /\ Len(settled[1].value[1].links) = 1

(* ------------------------------------------------------------------ *)
(* Properties of the displayed state, continued                         *)
(* ------------------------------------------------------------------ *)

\* the places of results that hold the status
Places(status) == {k \in 1..Len(results) : results[k].status = status}

\* C18: in every state the counts working, notWorking and unknown of summary
\* are the numbers of results with that status, and their sum is the length of
\* results: 9 when a valid submission has completed, 0 before any submission,
\* while the checks are in flight and after a validation failure.
C18_SummaryCounts ==
    /\ summary.working = Cardinality(Places("working"))
    /\ summary.notWorking = Cardinality(Places("not_working"))
    /\ summary.unknown = Cardinality(Places("unknown"))
    /\ summary.working + summary.notWorking + summary.unknown = Len(results)
    /\ Len(results) = (IF Completed THEN 9 ELSE 0)
    /\ (setResultsLog = <<>> \/ handler = "awaiting" \/ validationError # "") => Len(results) = 0

\* a completed submission with results of the three statuses
C18_Witness ==
    /\ Completed
    /\ summary.working = 2
    /\ summary.notWorking = 4
    /\ summary.unknown = 3

\* the address of the last link of a result
LastHref(result) == result.links[Len(result.links)].href

\* the displayed results are those of the checks of submittedUrl: the Wayback
\* entry ends with the timeline of that URL and the Archive.today entry starts
\* with the search for it
BelongToSubmittedUrl ==
    /\ submittedUrl # <<>>
    /\ LastHref(results[1]) = Tpl("https://web.archive.org/web/*/", encodeURIComponent(submittedUrl), "")
    /\ results[7].links[1].href = Tpl("https://archive.ph/search/?q=", encodeURIComponent(submittedUrl), "")

\* C19 as claimed: submissions overlap: while the checks of a submission are in
\* flight a new submission can be made (it does not cancel them), and the
\* displayed results belong to the URL shown as submittedUrl.
C19_SubmissionsOverlap ==
    /\ handler = "awaiting" => SubmitEnabled
    /\ results # <<>> => BelongToSubmittedUrl

\* C19 amended: submissions do not overlap: while the checks of a submission are
\* in flight loading is true and the submit button is disabled, the URL they
\* were started for stays the submittedUrl, and a new submission starts only
\* after the results are published; so the displayed results belong to the URL
\* shown as submittedUrl.
C19_NoOverlap ==
    /\ handler = "awaiting" =>
         /\ loading
         /\ ~SubmitEnabled
         /\ context # None
         /\ context[1].url = submittedUrl
    /\ results # <<>> => BelongToSubmittedUrl

\* results are displayed for a URL with a DOI while the field holds another URL
C19_Witness ==
    /\ Completed
    /\ results # <<>>
    /\ HasDoi
    /\ input = InputPlain
    /\ BelongToSubmittedUrl

\* C20: results are not merged across submissions: a submission, valid or not,
\* first clears results, which stay empty while its checks are in flight and
\* after a validation failure; when results are not empty they are the nine
\* entries of one submission, the last one: what its seven checks returned and
\* its two manual entries.
C20_NeverMerged ==
    /\ (handler = "awaiting" \/ validationError # "") => results = <<>>
    /\ results # <<>> =>
         /\ Len(results) = 9
         /\ \A k \in Sources : results[k] = settled[k].value[1]
         /\ <<results[8], results[9]>> = buildUnknownChecks(context[1])
         /\ BelongToSubmittedUrl

\* the results of a submission are displayed while the field holds a malformed
\* URL, typed after it
C20_Witness ==
    /\ Completed
    /\ Len(results) = 9
    /\ results[1] = settled[1].value[1]
    /\ HasDoi
    /\ input = InputBadHost

\* the second run publishes, and every source settled as it did in the recorded run
RepeatPublishes ==
    /\ baseline # None
    /\ handler = "awaiting"
    /\ handler' = "idle"
    /\ outcomes = baseline[1].outcomes

MaxPieces == 2

\* "a.io/"
HintHost == <<"a", ".", "i", "o", "/">>

\* the pieces the path of a submitted URL is put together from: "T", "-", "12",
\* ".pdf", "%T" (a malformed escape), "%20", "/", "/T", "T-12", "12/T",
\* "10.123", "10.12345678", "10.1234/t" and "10.1234%2Ft"
HintPieces ==
    { <<"T">>, <<"-">>, <<"1", "2">>, <<".", "p", "d", "f">>, <<"%", "T">>,
      <<"%", "2", "0">>, <<"/">>, <<"/", "T">>,
      <<"T", "-", "1", "2">>, <<"1", "2", "/", "T">>,
      <<"1", "0", ".", "1", "2", "3">>,
      <<"1", "0", ".", "1", "2", "3", "4", "5", "6", "7", "8">>,
      <<"1", "0", ".", "1", "2", "3", "4", "/", "t">>,
      <<"1", "0", ".", "1", "2", "3", "4", "%", "2", "F", "t">> }

RECURSIVE Concat(_)
Concat(pieces) == IF pieces = <<>> THEN <<>> ELSE pieces[1] \o Concat(Tail(pieces))

\* a.io/ followed by at most MaxPieces pieces
HintInputs ==
    {HintHost \o Concat(ps) : ps \in UNION {[1..n -> HintPieces] : n \in 0..MaxPieces}}

\* the form is mounted with one of these texts in the field
InitHints ==
    /\ NoHistory
    /\ input \in HintInputs
    /\ submittedUrl = <<>>
    /\ loading = FALSE
    /\ validationError = ""
    /\ results = <<>>
    /\ handler = "idle"
    /\ context = None
    /\ pc = [i \in Sources |-> "idle"]
    /\ response = [i \in Sources |-> NoResponse]
    /\ settled = [i \in Sources |-> Pending]
    /\ requests = [i \in Sources |-> <<>>]
    /\ setResultsLog = <<>>

\* the form is submitted: handleSubmit builds the context from the normalized URL
NextHints == handleSubmit /\ UNCHANGED history

SpecHints == InitHints /\ [][NextHints]_vars

\* a path without its trailing slashes
RECURSIVE StripTrailingSlashes(_)
StripTrailingSlashes(path) ==
    IF path # <<>> /\ path[Len(path)] = "/"
    THEN StripTrailingSlashes(SubSeq(path, 1, Len(path) - 1))
    ELSE path

\* the text after the last "/" of s
AfterLastSlash(s) ==
    Drop(s, CHOOSE i \in 0..Len(s) :
                /\ i = 0 \/ s[i] = "/"
                /\ \A j \in (i + 1)..Len(s) : s[j] # "/")

\* the last non-empty segment of a path, empty when it has none
LastSegmentOf(path) == AfterLastSlash(StripTrailingSlashes(path))

\* what extractTitleHint decodes: the last non-empty segment of the submitted
\* URL's path, or its hostname
HintSource ==
    OrElse(LastSegmentOf(ParseURL(submittedUrl).pathname), ParseURL(submittedUrl).hostname)

\* a text as the four replacements and the trim leave it: not empty, no space
\* at either end, no two spaces in a row, no hyphen or underscore, no two
\* digits in a row
CleanedForm(h) ==
    /\ h # <<>>
    /\ h[1] # " " /\ h[Len(h)] # " "
    /\ \A k \in 1..Len(h) : h[k] \notin {"-", "_"}
    /\ \A k \in 1..(Len(h) - 1) :
         /\ ~(h[k] = " " /\ h[k + 1] = " ")
         /\ ~(IsDigit(h[k]) /\ IsDigit(h[k + 1]))

\* C22 as stated: for every URL that parses, the title hint is not empty.
C22_NonEmptyWhenParsed ==
    (context # None /\ ParseURL(submittedUrl).ok) => context[1].titleHint # <<>>

\* C22: extractTitleHint returns a value for every input.  For a URL that
\* parses it returns the empty string exactly when percent-decoding the last
\* non-empty path segment (the hostname, when the path has none) throws;
\* otherwise it returns a non-empty string: that segment (or hostname) cleaned,
\* or the hostname as it is when the cleaning leaves nothing.  With no segment
\* in the path the hint is made of the hostname only.  For a string that does
\* not parse as a URL it returns the empty string.
C22_TitleHint ==
    /\ ~ParseURL(input).ok => extractTitleHint(input) = <<>>
    /\ context # None =>
         /\ ParseURL(submittedUrl).ok
         /\ context[1].titleHint = <<>> <=> ~decodeURIComponent(HintSource).ok
         /\ context[1].titleHint # <<>> =>
              \/ context[1].titleHint = ParseURL(submittedUrl).hostname
              \/ CleanedForm(context[1].titleHint)
         /\ LastSegmentOf(ParseURL(submittedUrl).pathname) = <<>> =>
              context[1].titleHint \in {ParseURL(submittedUrl).hostname,
                                        StripExtension(ParseURL(submittedUrl).hostname)}
         /\ (decodeURIComponent(HintSource).ok
               /\ context[1].titleHint # ParseURL(submittedUrl).hostname) =>
              context[1].titleHint = CleanTitle(decodeURIComponent(HintSource).value)

\* a.io/T-12.pdf was submitted: the hint is "T"
C22_Witness ==
    /\ context # None
    /\ input = HintHost \o <<"T", "-", "1", "2", ".", "p", "d", "f">>
    /\ submittedUrl = HttpsPrefix \o input
    /\ context[1].titleHint = <<"T">>

\* a.io/%T was submitted: the URL parses and the hint is empty
C22_WitnessMalformedEscape ==
    /\ context # None
    /\ input = HintHost \o <<"%", "T">>
    /\ context[1].titleHint = <<>>

\* s reads 10. + 4 to 9 digits + / + one or more characters of the suffix class
IsDoi(s) ==
    /\ Len(s) >= 9
    /\ SubSeq(s, 1, 3) = <<"1", "0", ".">>
    /\ \E d \in 4..9 :
         /\ Len(s) >= 3 + d + 2
         /\ \A k \in 4..(3 + d) : s[k] \in Digits
         /\ s[3 + d + 1] = "/"
         /\ \A k \in (3 + d + 2)..Len(s) : toLowerCase(s[k]) \in DoiSuffixClass

\* the places <<i, j>> of the substrings of t that match the DOI pattern
DoiSpans(t) ==
    {span \in (1..Len(t)) \X (1..Len(t)) :
        /\ span[1] + 8 <= span[2]
        /\ t[span[1]] = "1"
        /\ IsDoi(SubSeq(t, span[1], span[2]))}

\* the text extractDoi searches: text decoded, or text itself when decoding throws
DoiText(text) ==
    IF decodeURIComponent(text).ok THEN decodeURIComponent(text).value ELSE text

\* doi is what the pattern matches first in t: none when nothing matches, and
\* otherwise the match that starts leftmost and runs as far as the pattern allows
FirstDoiOf(doi, t) ==
    /\ doi = None <=> DoiSpans(t) = {}
    /\ doi # None =>
         \E span \in DoiSpans(t) :
            /\ doi[1] = SubSeq(t, span[1], span[2])
            /\ \A other \in DoiSpans(t) :
                 /\ span[1] <= other[1]
                 /\ other[1] = span[1] => other[2] <= span[2]

\* C23: extractDoi returns a value for every string: the first substring of the
\* decoded text (of the text itself when decoding throws) that matches the DOI
\* pattern, and none exactly when no substring matches.  It is checked on the
\* text of the field and on the URL handleSubmit passes to it.
C23_ExtractDoi ==
    /\ FirstDoiOf(extractDoi(input), DoiText(input))
    /\ context # None => FirstDoiOf(context[1].doi, DoiText(submittedUrl))

\* a.io/%T10.1234/t was submitted: decoding throws, and the DOI is found in the
\* text as it is
C23_Witness ==
    /\ context # None
    /\ input = HintHost \o <<"%", "T", "1", "0", ".", "1", "2", "3", "4", "/", "t">>
    /\ ~decodeURIComponent(submittedUrl).ok
    /\ context[1].doi = Some(<<"1", "0", ".", "1", "2", "3", "4", "/", "t">>)

\* a.io/10.1234%2Ft%20 was submitted: the DOI is found in the decoded text and
\* ends at the space
C23_WitnessDecoded ==
    /\ context # None
    /\ input = HintHost \o <<"1", "0", ".", "1", "2", "3", "4", "%", "2", "F", "t", "%", "2", "0">>
    /\ context[1].doi = Some(<<"1", "0", ".", "1", "2", "3", "4", "/", "t">>)

\* a.io/10.1234567812/T was submitted: ten digits, no DOI
C23_WitnessTooManyDigits ==
    /\ context # None
    /\ input = HintHost \o <<"1", "0", ".", "1", "2", "3", "4", "5", "6", "7", "8", "1", "2", "/", "T">>
    /\ context[1].doi = None

(* ------------------------------------------------------------------ *)
(* Progress of a submission whose requests all settle                   *)
(* ------------------------------------------------------------------ *)

\* every request is answered with a success status, or, the first one, fails
\* in the network
LiveFetchOutcomes(i) ==
    IF i = 1 THEN {NetworkError, HttpResponse(TRUE)} ELSE {HttpResponse(TRUE)}

InitLive ==
    /\ NoHistory
    /\ input \in {InputPlain, InputBadHost}
    /\ submittedUrl = <<>>
    /\ loading = FALSE
    /\ validationError = ""
    /\ results = <<>>
    /\ handler = "idle"
    /\ context = None
    /\ pc = [i \in Sources |-> "idle"]
    /\ response = [i \in Sources |-> NoResponse]
    /\ settled = [i \in Sources |-> Pending]
    /\ requests = [i \in Sources |-> <<>>]
    /\ setResultsLog = <<>>

\* the fetch of check i settles, in any order among the checks
LiveFetch(i) == \E r \in LiveFetchOutcomes(i) : FetchSettles(i, r) /\ UNCHANGED history

\* the bodies read: Wayback has no snapshot and OpenAlex no open-access work,
\* the other services answer with a candidate
LiveBody(i) == IF i \in {1, 3} THEN EmptyBody(i) ELSE FoundBody(i)

\* response.json() of check i settles
LiveJson(i) == JsonSettles(i, LiveBody(i)) /\ UNCHANGED history

\* the continuation of handleSubmit after its await runs
LivePublish == Publish /\ UNCHANGED history

NextLive ==
    \/ handleSubmit /\ UNCHANGED history
    \/ \E i \in Sources : LiveFetch(i)
    \/ \E i \in Sources : LiveJson(i)
    \/ LivePublish

\* one of the requests or bodies still pending settles
LiveSettle == \E i \in Sources : LiveFetch(i) \/ LiveJson(i)

\* while a request or a response.json() is pending, one of them eventually
\* settles (the premise: the handler sets no timeout, the platform settles
\* them), and the event loop runs the continuation of the await once
\* Promise.allSettled has resolved
SpecLive ==
    /\ InitLive
    /\ [][NextLive]_vars
    /\ WF_vars(LiveSettle)
    /\ WF_vars(LivePublish)

\* C24: when every request of a valid submission settles, the submission
\* publishes its 9 results and loading returns to false; and results are
\* published only once every check has settled, the slowest included.
C24_EventuallyPublishes ==
    /\ (handler = "awaiting") ~> (handler = "idle" /\ ~loading /\ Len(results) = 9)
    /\ [][(handler = "awaiting" /\ results' # results) =>
            \A i \in Sources : pc[i] = "done" /\ settled[i].status # "pending"]_vars

\* a valid submission has published after all seven checks settled, the first
\* by a network error and the second with a body
C24_Witness ==
    /\ handler = "idle"
    /\ submittedUrl # <<>>
    /\ ~loading
    /\ Len(results) = 9
    /\ \A i \in Sources : pc[i] = "done"
    /\ setResultsLog[Len(setResultsLog)] = [settled |-> 7, entries |-> 9]
    /\ results[1].summary = Lit("Falha de rede ao consultar Wayback.")
    /\ results[2].status = "working"

\* a check of the current submission has not settled yet
Unsettled == \E i \in Sources : pc[i] \in {"fetch", "json"}

\* C25: while a check of a submission is unsettled, loading is true, results is
\* empty and submittedUrl is the normalized URL the checks were started with.
\* loading is false before the first submission, stays false when validation
\* fails, and is false whenever no handler run is under way.
C25_Loading ==
    /\ Unsettled =>
         /\ loading
         /\ results = <<>>
         /\ context # None
         /\ submittedUrl = context[1].url
         /\ submittedUrl # <<>>
    /\ setResultsLog = <<>> => ~loading
    /\ validationError # "" => ~loading
    /\ handler = "idle" => ~loading

\* one check has settled and another is reading its body: the form is loading
\* and shows no result
C25_Witness ==
    /\ pc[1] = "done"
    /\ pc[2] = "json"
    /\ pc[7] = "fetch"
    /\ loading
    /\ results = <<>>
    /\ submittedUrl = HttpsPrefix \o InputPlain

\* a submission has failed validation: loading is false
C25_WitnessValidation ==
    /\ validationError # ""
    /\ setResultsLog # <<>>
    /\ ~loading

\* a step that starts the seven checks of a submission
FanOutStarts == \A i \in Sources : pc'[i] = "fetch"

\* C26: a submission starts its checks only while loading is false and no
\* handler run is under way, when no check of an earlier submission is
\* unsettled: at most one fan-out is in flight and two submissions never have
\* unsettled checks at the same time.
C26_SingleFanOut ==
    [][FanOutStarts =>
         /\ ~loading
         /\ handler = "idle"
         /\ \A i \in Sources : pc[i] \in {"idle", "done"}]_vars

\* a second submission is in flight, started after the first one published
C26_Witness ==
    /\ baseline # None
    /\ loading
    /\ \A i \in Sources : pc[i] = "fetch" /\ Len(requests[i]) = 1
    /\ results = <<>>

\* check i returns in this step
Returns(i) == pc[i] # "done" /\ pc'[i] = "done"

\* C27: a result with status working has at least one link, whatever the source
\* and the body.  The working result of the Wayback CDX check has one link per
\* capture row, three at most, the k-th built from row k + 1 of the body: the
\* header row gives no link.
C27_WorkingHasLinks ==
    [][/\ \A i \in Sources :
            (Returns(i) /\ Returned(i).status = "working") => Returned(i).links # <<>>
       /\ \A b \in BodyOutcomes(2) :
            (JsonSettles(2, b) /\ Returned(2).status = "working") =>
               /\ Len(Returned(2).links) \in 1..3
               /\ Len(Returned(2).links) = IF Len(b.data[1]) > 4 THEN 3 ELSE Len(b.data[1]) - 1
               /\ \A k \in 1..Len(Returned(2).links) :
                    /\ Returned(2).links[k].label = Tpl("Captura ", b.data[1][k + 1][1], "")
                    /\ Returned(2).links[k].label # Tpl("Captura ", CdxHeader[1], "")]_vars

\* the CDX check has returned working for a body of four capture rows: three links
C27_Witness ==
    /\ pc[2] = "done"
    /\ settled[2].value[1].status = "working"
    /\ Len(settled[2].value[1].links) = 3
    /\ settled[2].value[1].summary =
         Tpl("", <<"4">>, " captura(s) encontradas na consulta CDX (amostra).")

====
